---- MODULE Spec2Model ----
(***************************************************************************)
(* Model of the action server of the airline booking chatbot               *)
(* (src/actions/actions.py, src/actions/db_client.py).                     *)
(*                                                                         *)
(* The conversation state is the tracker's slots; every action of the      *)
(* model is one run of a custom action or of one form validator: it reads  *)
(* the tracker, emits dispatcher messages and returns events, and the      *)
(* events are applied to the slots.                                        *)
(***************************************************************************)
EXTENDS Integers, Sequences, FiniteSets, TLC

VARIABLES
    slots,        \* tracker slots: slot name -> None or Some(value)
    active_loop,  \* tracker.active_loop name: None or Some(form name)
    pool,         \* db_client.pool is available (TRUE) or None (FALSE)
    messages,     \* dispatcher.messages of the last run
    events,       \* the events the last run returned
    call,         \* the last run: its name and what it read from outside
    today,        \* the calendar day date.today() returns, as a day number
    redis,        \* RedisCache.redis: None when caching is disabled
    store,        \* what the Redis server holds: key -> None or an entry
    now,          \* the clock of the Redis server, in seconds
    search,       \* the provider client: where its search stands
    db,           \* the database: its tables, committed rows, connections in use
    ops           \* the data-store operations in progress, one per request

cache_vars == <<redis, store, now, search>>

db_vars == <<db, ops>>

vars == <<slots, active_loop, pool, messages, events, call, today, cache_vars, db_vars>>

----------------------------------------------------------------------------
(* Python values.  None is the empty tuple, any other value v is <<v>>.    *)

None == <<>>

Some(v) == <<v>>

IsSet(x) == x # None

Val(x) == x[1]

\* `x or []` for a list-valued slot
ListOf(x) == IF x = None THEN <<>> ELSE Val(x)

Range(s) == {s[i] : i \in DOMAIN s}

----------------------------------------------------------------------------
(* Bounds of the model.                                                    *)

\* longest destinations list the model builds
MaxLegs == 2

\* most offers a search result carries
MaxOffers == 2

\* the last calendar day the clock reaches
MaxDay == 3

\* the calendar day the conversation starts on
FirstDay == 2

----------------------------------------------------------------------------
(* Slots.                                                                  *)

FlightSlots ==
    {"booking_trip_type", "departure_city", "departure_city_iata",
     "destination_city", "destination_city_iata", "destinations",
     "destinations_iata", "next_destination", "next_destination_iata",
     "add_more_destinations", "departure_date", "return_date",
     "number_of_passengers", "preferred_airline", "frequent_flyer_number",
     "travel_class"}

StagingSlots ==
    {"ambiguous_city_name", "ambiguous_city_slot", "suggested_city",
     "selected_iata_code"}

\* the date slots of the hotel form and of the car form
StaySlots == {"check_in_date", "check_out_date", "pickup_date", "dropoff_date"}

SlotNames ==
    FlightSlots \cup StagingSlots \cup StaySlots
        \cup {"pickup_location", "cancellation_pending", "requested_slot"}

\* the city slots that have a paired <slot>_iata slot
CitySlots == {"departure_city", "destination_city", "next_destination"}

\* f"{slot_name}_iata"
IataOf(slot_name) == slot_name \o "_iata"

AllNone == [s \in SlotNames |-> None]

\* tracker.get_slot
get_slot(tracker, name) == tracker[name]

----------------------------------------------------------------------------
(* Dictionaries (ordered, as Python dicts are), messages and events.       *)

KV(k, v) == [name |-> k, value |-> v]

Keys(d) == {d[i].name : i \in DOMAIN d}

\* d.get(k): None when k is no key of d
DictGet(d, k) ==
    IF k \in Keys(d) THEN d[CHOOSE i \in DOMAIN d : d[i].name = k].value ELSE None

\* d.update(u) for one item: an existing key keeps its place
DictPut(d, kv) ==
    IF kv.name \in Keys(d)
    THEN [i \in DOMAIN d |-> IF d[i].name = kv.name THEN kv ELSE d[i]]
    ELSE Append(d, kv)

RECURSIVE DictUpdate(_, _)
DictUpdate(d, u) ==
    IF u = <<>> THEN d ELSE DictUpdate(DictPut(d, Head(u)), Tail(u))

\* the tracker after the SlotSet events for the items of d are applied
ApplyDict(tracker, d) ==
    [s \in SlotNames |-> IF s \in Keys(d) THEN DictGet(d, s) ELSE tracker[s]]

\* dispatcher.utter_message(text=...): the text is named by its wording
Text(id) == [kind |-> "text", id |-> id, buttons |-> <<>>]

TextButtons(id, buttons) == [kind |-> "text", id |-> id, buttons |-> buttons]

\* dispatcher.utter_message(response=...)
Response(id) == [kind |-> "response", id |-> id, buttons |-> <<>>]

ResponseButtons(id, buttons) == [kind |-> "response", id |-> id, buttons |-> buttons]

\* a button payload /intent{"entity": "value"}
Payload(intent, entity, value) == [intent |-> intent, entity |-> entity, value |-> value]

SlotSet(name, value) == [event |-> "slot", name |-> name, value |-> value]

FollowupAction(name) == [event |-> "followup", name |-> name, value |-> None]

ActiveLoop(name) == [event |-> "active_loop", name |-> "", value |-> name]

AllSlotsReset == [event |-> "reset_slots", name |-> "", value |-> None]

\* [SlotSet(slot, value) for slot, value in d.items()]
SlotSets(d) == [i \in DOMAIN d |-> SlotSet(d[i].name, d[i].value)]

\* the slots after one event is applied by the host
ApplyEvent(tracker, e) ==
    CASE e.event = "slot" -> [tracker EXCEPT ![e.name] = e.value]
      [] e.event = "reset_slots" -> AllNone
      [] OTHER -> tracker

RECURSIVE ApplyEvents(_, _)
ApplyEvents(tracker, es) ==
    IF es = <<>> THEN tracker ELSE ApplyEvents(ApplyEvent(tracker, Head(es)), Tail(es))

\* what a validator or helper hands back: the dict it returns and the
\* messages it sent through the dispatcher
Out(res, msgs) == [res |-> res, msgs |-> msgs, raised |-> FALSE]

\* the run stops with an uncaught exception: no events reach the host
Raise(msgs) == [res |-> <<>>, msgs |-> msgs, raised |-> TRUE]

----------------------------------------------------------------------------
(* Strings.  str.lower() on the strings the model uses.                    *)

LowerTable ==
    [s \in {"Paris", "paris", "Tokyo", "London", "Pariss", "Tokio",
            "New York", "Berlin", "San Francisco",
            "One-way", "oneway", "Round trip", "Multi-city", "return",
            "AwesomeAirlines", "FlyHigh", "Lufthansa"} |->
        CASE s = "Paris" -> "paris"
          [] s = "Tokyo" -> "tokyo"
          [] s = "London" -> "london"
          [] s = "Pariss" -> "pariss"
          [] s = "Tokio" -> "tokio"
          [] s = "New York" -> "new york"
          [] s = "Berlin" -> "berlin"
          [] s = "San Francisco" -> "san francisco"
          [] s = "One-way" -> "one-way"
          [] s = "Round trip" -> "round trip"
          [] s = "Multi-city" -> "multi-city"
          [] s = "AwesomeAirlines" -> "awesomeairlines"
          [] s = "FlyHigh" -> "flyhigh"
          [] s = "Lufthansa" -> "lufthansa"
          [] OTHER -> s]

Lower(s) == IF s \in DOMAIN LowerTable THEN LowerTable[s] ELSE s

\* `sub in value`, for the lower-cased trip-type answers of the model
Contains(value, sub) ==
    CASE sub = "one" -> value \in {"one-way", "oneway"}
      [] sub = "oneway" -> value \in {"oneway"}
      [] sub = "round" -> value \in {"round trip"}
      [] sub = "multi" -> value \in {"multi-city"}
      [] OTHER -> FALSE

\* int(slot_value): None stands for ValueError / TypeError
ParseInt(v) ==
    CASE v = "1" -> Some(1)
      [] v = "4" -> Some(4)
      [] v = "5" -> Some(5)
      [] v = "0" -> Some(0)
      [] v = "-2" -> Some(0 - 2)
      [] OTHER -> None

----------------------------------------------------------------------------
(* ValidateFlightBookingForm.required_slots                                *)

\* a mutation of required_slots_travel_class: four passengers count as premium
required_slots_travel_class_from_four(trip_type, num_passengers) ==
    trip_type = "multi-city"
        \/ (IsSet(num_passengers) /\ Val(num_passengers) # 0 /\ Val(num_passengers) >= 4)

\* the "premium booking" test that adds travel_class
required_slots_travel_class(trip_type, num_passengers) ==
    trip_type = "multi-city"
        \/ (IsSet(num_passengers) /\ Val(num_passengers) # 0 /\ Val(num_passengers) > 4)

\* a mutation of required_slots_loop: the loop runs only while the flag is True
required_slots_loop_only_true(tracker) ==
    get_slot(tracker, "add_more_destinations") = Some(TRUE)

\* the multi-city leg loop continues
required_slots_loop(tracker) ==
    get_slot(tracker, "add_more_destinations") # Some(FALSE)

\* a mutation of required_slots_dates: the return date is asked first
required_slots_dates_return_first(trip_type) ==
    (IF trip_type = "round trip" THEN <<"return_date">> ELSE <<>>) \o <<"departure_date">>

\* departure_date, and return_date for a round trip
required_slots_dates(trip_type) ==
    <<"departure_date">> \o (IF trip_type = "round trip" THEN <<"return_date">> ELSE <<>>)

required_slots(tracker) ==
    LET trip_type == get_slot(tracker, "booking_trip_type")
        num_passengers == get_slot(tracker, "number_of_passengers")
    IN  IF trip_type = None
        THEN <<"booking_trip_type">>
        ELSE <<"booking_trip_type", "departure_city">>
             \o (CASE Val(trip_type) = "one-way" -> <<"destination_city">>
                   [] Val(trip_type) = "round trip" -> <<"destination_city">>
                   [] Val(trip_type) = "multi-city" ->
                        IF required_slots_loop(tracker)
                        THEN <<"next_destination", "add_more_destinations">>
                        ELSE <<>>
                   [] OTHER -> <<>>)
             \o required_slots_dates(Val(trip_type))
             \o <<"number_of_passengers">>
             \o (IF required_slots_travel_class(Val(trip_type), num_passengers)
                 THEN <<"travel_class">> ELSE <<>>)
             \o <<"preferred_airline", "frequent_flyer_number">>

----------------------------------------------------------------------------
(* Field validators of ValidateFlightBookingForm.                          *)

\* validate_booking_trip_type emptying only the list of city names
validate_booking_trip_type_keeping_codes(slot_value, tracker) ==
    LET value == Lower(slot_value)
    IN  IF Contains(value, "one") \/ Contains(value, "oneway")
        THEN Out(<<KV("booking_trip_type", Some("one-way"))>>, <<>>)
        ELSE IF Contains(value, "round")
        THEN Out(<<KV("booking_trip_type", Some("round trip"))>>, <<>>)
        ELSE IF Contains(value, "multi")
        THEN Out(<<KV("booking_trip_type", Some("multi-city")),
                   KV("add_more_destinations", Some(TRUE)),
                   KV("destinations", Some(<<>>))>>, <<>>)
        ELSE Out(<<KV("booking_trip_type", None)>>,
                 <<Text("I didn't understand the trip type")>>)

validate_booking_trip_type(slot_value, tracker) ==
    LET value == Lower(slot_value)
    IN  IF Contains(value, "one") \/ Contains(value, "oneway")
        THEN Out(<<KV("booking_trip_type", Some("one-way"))>>, <<>>)
        ELSE IF Contains(value, "round")
        THEN Out(<<KV("booking_trip_type", Some("round trip"))>>, <<>>)
        ELSE IF Contains(value, "multi")
        THEN Out(<<KV("booking_trip_type", Some("multi-city")),
                   KV("add_more_destinations", Some(TRUE)),
                   KV("destinations", Some(<<>>)),
                   KV("destinations_iata", Some(<<>>))>>, <<>>)
        ELSE Out(<<KV("booking_trip_type", None)>>,
                 <<Text("I didn't understand the trip type")>>)

validate_add_more_destinations(slot_value, tracker) ==
    IF slot_value = TRUE
    THEN Out(<<KV("add_more_destinations", Some(TRUE))>>, <<>>)
    ELSE Out(<<KV("add_more_destinations", Some(FALSE))>>, <<>>)

\* the positivity test taken with zero passengers allowed
validate_number_of_passengers_negative(num_passengers) == num_passengers < 0

\* the count is not positive
validate_number_of_passengers_too_few(num_passengers) == num_passengers <= 0

validate_number_of_passengers(slot_value, tracker) ==
    LET current_passengers == get_slot(tracker, "number_of_passengers")
        num_passengers == ParseInt(slot_value)
    IN  IF num_passengers = None
        THEN Out(<<KV("number_of_passengers", None)>>,
                 <<Text("I don't understand as a number of passengers")>>)
        ELSE IF validate_number_of_passengers_too_few(Val(num_passengers))
        THEN Out(<<KV("number_of_passengers", None)>>,
                 <<Text("The number of passengers must be at least 1")>>)
        ELSE Out(<<KV("number_of_passengers", num_passengers)>>,
                 IF current_passengers # None /\ current_passengers # num_passengers
                 THEN <<Text("I've updated the number of passengers")>>
                 ELSE <<>>)

\* FREQUENT_FLYER_FORMATS: airline key -> regex and example
FREQUENT_FLYER_FORMATS ==
    [awesomeairlines |-> [regex |-> "^[A-Z]{2}\\d{8}$", example |-> "AA12345678"],
     flyhigh |-> [regex |-> "^[A-Z]-\\d{7}$", example |-> "F-1234567"]]

\* re.match(regex, string) for the two formats and the numbers the model types
re_match(regex, string) ==
    CASE regex = "^[A-Z]{2}\\d{8}$" -> string \in {"AA12345678", "ZZ00000001"}
      [] regex = "^[A-Z]-\\d{7}$" -> string \in {"F-1234567"}
      [] OTHER -> FALSE

\* slot_value is None or Some(text); intent is the latest message's intent
validate_preferred_airline(slot_value, intent, tracker) ==
    IF intent = "deny"
    THEN Out(<<KV("preferred_airline", None)>>, <<Text("I'll search all available airlines")>>)
    ELSE Out(<<KV("preferred_airline", slot_value)>>,
             IF IsSet(slot_value) /\ Val(slot_value) # ""
             THEN <<Text("I'll look for flights on the airline")>> ELSE <<>>)

validate_frequent_flyer_number(slot_value, intent, tracker) ==
    LET airline == get_slot(tracker, "preferred_airline")
    IN  IF intent = "deny"
        THEN Out(<<KV("frequent_flyer_number", None)>>, <<Text("Okay, no problem")>>)
        ELSE IF slot_value = None \/ Val(slot_value) = ""
        THEN Out(<<KV("frequent_flyer_number", None)>>, <<>>)
        ELSE IF airline = None \/ Val(airline) = ""
        THEN Out(<<KV("frequent_flyer_number", None)>>,
                 <<Text("I need to know your preferred airline")>>)
        ELSE IF Lower(Val(airline)) \notin DOMAIN FREQUENT_FLYER_FORMATS
        THEN Out(<<KV("frequent_flyer_number", slot_value)>>,
                 <<Text("I've added your frequent flyer number")>>)
        ELSE IF re_match(FREQUENT_FLYER_FORMATS[Lower(Val(airline))].regex, Val(slot_value))
        THEN Out(<<KV("frequent_flyer_number", slot_value)>>,
                 <<Text("I've added your frequent flyer number")>>)
        ELSE Out(<<KV("frequent_flyer_number", None)>>,
                 <<Text("That doesn't look like a valid frequent flyer number")>>)

----------------------------------------------------------------------------
(* Dates.  A calendar day is a day number.  What the user types is a       *)
(* phrase relative to the current day ("tomorrow"), a written date, or     *)
(* text that is no date; a stored date is the YYYY-MM-DD text of its day.  *)

Phrase(offset) == [form |-> "phrase", day |-> offset]

Written(day) == [form |-> "written", day |-> day]

NoDate == [form |-> "no date", day |-> 0]

EmptyText == [form |-> "", day |-> 0]

\* parsed_date.strftime("%Y-%m-%d")
strftime(day) == [form |-> "YYYY-MM-DD", day |-> day]

\* datetime.date.today()
date_today == today

\* dateparser.parse(str(date_string)): the day the text denotes, None when
\* it denotes none; a relative phrase is resolved against the current day
dateparser_parse(date_string) ==
    CASE date_string.form = "phrase" -> Some(date_today + date_string.day)
      [] date_string.form \in {"written", "YYYY-MM-DD"} -> Some(date_string.day)
      [] OTHER -> None

\* slot_name.replace('_', ' ')
SpacedTable ==
    [departure_date |-> "departure date", return_date |-> "return date",
     check_in_date |-> "check in date", check_out_date |-> "check out date",
     pickup_date |-> "pickup date", dropoff_date |-> "dropoff date"]

Spaced(slot_name) == SpacedTable[slot_name]

\* the past-date test taken with today itself refused
validate_date_past_or_today(day) == day <= date_today

\* a parsed date strictly before today is in the past
validate_date_past(day) == day < date_today

\* _validate_date: res is the returned text, None when validation fails
validate_date(date_string, slot_name) ==
    IF date_string = None \/ Val(date_string) = EmptyText
    THEN Out(None, <<>>)
    ELSE LET parsed_date == dateparser_parse(Val(date_string))
         IN  IF parsed_date = None
             THEN Out(None, <<Text("I'm sorry, I couldn't understand as a date")>>)
             ELSE IF validate_date_past(Val(parsed_date))
             THEN Out(None, <<Text("The " \o Spaced(slot_name)
                                    \o " can't be in the past!")>>)
             ELSE Out(Some(strftime(Val(parsed_date))), <<>>)

\* the end-date test taken with an end date equal to the start date allowed
validate_end_date_before(end_day, start_day) == end_day < start_day

\* an end date on or before the start date is refused
validate_end_date_not_after(end_day, start_day) == end_day <= start_day

\* _validate_end_date
validate_end_date(end_date_string, start_date_string, slot_name, start_date_slot_name) ==
    IF start_date_string = None
    THEN Out(None, <<Text("I need to know the " \o Spaced(start_date_slot_name)
                           \o " first.")>>)
    ELSE LET validated_end_date == validate_date(end_date_string, slot_name)
         IN  IF validated_end_date.res = None
             THEN validated_end_date
             ELSE LET start_date_obj == dateparser_parse(Val(start_date_string))
                      end_date_obj == dateparser_parse(Val(validated_end_date.res))
                  IN  IF validate_end_date_not_after(Val(end_date_obj), Val(start_date_obj))
                      THEN Out(None, <<Text("The " \o Spaced(slot_name)
                                             \o " must be after the "
                                             \o Spaced(start_date_slot_name) \o ".")>>)
                      ELSE validated_end_date

\* ValidateFlightBookingForm.validate_departure_date
validate_departure_date(slot_value, tracker) ==
    LET current_date == get_slot(tracker, "departure_date")
        validated_date == validate_date(slot_value, "departure_date")
    IN  Out(<<KV("departure_date", validated_date.res)>>,
            validated_date.msgs
            \o (IF validated_date.res # None /\ current_date # None
                    /\ current_date # validated_date.res
                 THEN <<Text("Okay, I've updated the departure date")>>
                 ELSE <<>>))

\* ValidateFlightBookingForm.validate_return_date
validate_return_date(slot_value, tracker) ==
    LET validated_date ==
            validate_end_date(slot_value, get_slot(tracker, "departure_date"),
                              "return_date", "departure_date")
    IN  Out(<<KV("return_date", validated_date.res)>>, validated_date.msgs)

\* ValidateHotelBookingForm.validate_check_in_date
validate_check_in_date(slot_value, tracker) ==
    LET validated_date == validate_date(slot_value, "check_in_date")
    IN  Out(<<KV("check_in_date", validated_date.res)>>, validated_date.msgs)

\* ValidateHotelBookingForm.validate_check_out_date
validate_check_out_date(slot_value, tracker) ==
    LET validated_date ==
            validate_end_date(slot_value, get_slot(tracker, "check_in_date"),
                              "check_out_date", "check_in_date")
    IN  Out(<<KV("check_out_date", validated_date.res)>>, validated_date.msgs)

\* ValidateCarBookingForm.validate_pickup_date
validate_pickup_date(slot_value, tracker) ==
    LET validated_date == validate_date(slot_value, "pickup_date")
    IN  Out(<<KV("pickup_date", validated_date.res)>>, validated_date.msgs)

\* ValidateCarBookingForm.validate_dropoff_date
validate_dropoff_date(slot_value, tracker) ==
    LET validated_date ==
            validate_end_date(slot_value, get_slot(tracker, "pickup_date"),
                              "dropoff_date", "pickup_date")
    IN  Out(<<KV("dropoff_date", validated_date.res)>>, validated_date.msgs)

----------------------------------------------------------------------------
(* The data store: the seed rows of DatabaseClient.initialize_schema and   *)
(* the two lookups city validation uses.  `ok` is FALSE when the pool is   *)
(* absent (both lookups then return the empty list).                       *)

SeedCities == <<"London", "Paris", "New York", "Tokyo", "Berlin", "San Francisco">>

SeedAirports ==
    << [city |-> "London", name |-> "Heathrow Airport", iata |-> "LHR"],
       [city |-> "London", name |-> "Gatwick Airport", iata |-> "LGW"],
       [city |-> "Paris", name |-> "Charles de Gaulle Airport", iata |-> "CDG"],
       [city |-> "New York", name |-> "John F. Kennedy Intl.", iata |-> "JFK"],
       [city |-> "New York", name |-> "LaGuardia Airport", iata |-> "LGA"],
       [city |-> "Tokyo", name |-> "Haneda Airport", iata |-> "HND"],
       [city |-> "Berlin", name |-> "Berlin Brandenburg Airport", iata |-> "BER"],
       [city |-> "San Francisco", name |-> "San Francisco Intl.", iata |-> "SFO"] >>

get_airports_for_city(city_name, ok) ==
    IF ~ok THEN <<>>
    ELSE LET rows == SelectSeq(SeedAirports, LAMBDA ap : Lower(ap.city) = Lower(city_name))
         IN  [i \in DOMAIN rows |-> [name |-> rows[i].name, iata |-> rows[i].iata]]

get_all_city_names(ok) == IF ~ok THEN <<>> ELSE SeedCities

\* thefuzz process.extractOne(slot_value, all_cities) against the seed
\* cities, for the spellings the model types: the best match and its score
extractOne(slot_value, all_cities) ==
    CASE Lower(slot_value) = "paris" -> [best_match |-> "Paris", score |-> 100]
      [] Lower(slot_value) = "tokyo" -> [best_match |-> "Tokyo", score |-> 100]
      [] Lower(slot_value) = "london" -> [best_match |-> "London", score |-> 100]
      [] Lower(slot_value) = "pariss" -> [best_match |-> "Paris", score |-> 91]
      [] Lower(slot_value) = "tokio" -> [best_match |-> "Tokyo", score |-> 80]
      [] OTHER -> [best_match |-> all_cities[1], score |-> 0]

\* the typo threshold of _validate_city
TypoThreshold == 80

----------------------------------------------------------------------------
(* ValidateFlightBookingForm._validate_city and the city validators.       *)

\* the typo test taken with a score of exactly the threshold accepted
validate_city_typo_from_threshold(score) == score >= TypoThreshold

\* a suggestion is offered only for a score strictly above the threshold
validate_city_typo(score) == score > TypoThreshold

\* the airport buttons taken with every button carrying the first code
validate_city_buttons_first_code(airports) ==
    [i \in DOMAIN airports |->
        Payload("select_airport", "selected_iata_code", airports[1].iata)]

\* one button per airport: /select_airport{"selected_iata_code": "<iata>"}
validate_city_buttons(airports) ==
    [i \in DOMAIN airports |->
        Payload("select_airport", "selected_iata_code", airports[i].iata)]

\* the places of all_cities whose lower-cased name is the lower-cased input
ExactMatches(slot_value, all_cities) ==
    {i \in DOMAIN all_cities : Lower(all_cities[i]) = Lower(slot_value)}

\* ValidateCarBookingForm.validate_pickup_location; all_cities is what
\* db_client.get_all_city_names() returns
validate_pickup_location(slot_value, all_cities) ==
    IF slot_value = ""
    THEN Out(<<KV("pickup_location", None)>>, <<>>)
    ELSE IF all_cities = <<>>
    THEN Out(<<KV("pickup_location", Some(slot_value))>>, <<>>)
    ELSE IF ExactMatches(slot_value, all_cities) # {}
    THEN LET first == CHOOSE i \in ExactMatches(slot_value, all_cities) :
                          \A j \in ExactMatches(slot_value, all_cities) : i <= j
         IN  Out(<<KV("pickup_location", Some(all_cities[first]))>>, <<>>)
    ELSE IF extractOne(slot_value, all_cities).score > TypoThreshold
    THEN Out(<<KV("pickup_location", None),
               KV("suggested_city",
                  Some(extractOne(slot_value, all_cities).best_match)),
               KV("ambiguous_city_slot", Some("pickup_location"))>>,
             <<ResponseButtons("utter_clarify_city_typo",
                   <<Payload("affirm", "", ""), Payload("deny", "", "")>>)>>)
    ELSE Out(<<KV("pickup_location", None)>>,
             <<Text("I don't recognize as a valid location")>>)

validate_city(slot_name, slot_value, airports, all_cities) ==
    IF airports = <<>>
    THEN IF all_cities # <<>>
            /\ validate_city_typo(extractOne(slot_value, all_cities).score)
         THEN Out(<<KV(slot_name, None),
                    KV(IataOf(slot_name), None),
                    KV("suggested_city",
                       Some(extractOne(slot_value, all_cities).best_match)),
                    KV("ambiguous_city_slot", Some(slot_name))>>,
                  <<ResponseButtons("utter_clarify_city_typo",
                        <<Payload("affirm", "", ""), Payload("deny", "", "")>>)>>)
         ELSE Out(<<KV(slot_name, None), KV(IataOf(slot_name), None)>>,
                  <<Text("I don't recognize as a valid city")>>)
    ELSE IF Len(airports) = 1
    THEN Out(<<KV(slot_name, Some(slot_value)),
               KV(IataOf(slot_name), Some(airports[1].iata))>>, <<>>)
    ELSE Out(<<KV(slot_name, None),
               KV(IataOf(slot_name), None),
               KV("ambiguous_city_name", Some(slot_value)),
               KV("ambiguous_city_slot", Some(slot_name))>>,
             <<ResponseButtons("utter_clarify_airport", validate_city_buttons(airports))>>)

validate_departure_city(slot_value, tracker, airports, all_cities) ==
    validate_city("departure_city", slot_value, airports, all_cities)

validate_destination_city_same(slot_value, departure_city) ==
    IsSet(departure_city) /\ Lower(slot_value) = Lower(Val(departure_city))

validate_destination_city(slot_value, tracker, airports, all_cities) ==
    IF validate_destination_city_same(slot_value, get_slot(tracker, "departure_city"))
    THEN Out(<<KV("destination_city", None), KV("destination_city_iata", None)>>,
             <<Text("Departure and destination cities cannot be the same")>>)
    ELSE validate_city("destination_city", slot_value, airports, all_cities)

\* validate_next_destination storing the accepted city as the only leg
validate_next_destination_restart(slot_value, tracker, airports, all_cities) ==
    LET destinations == ListOf(get_slot(tracker, "destinations"))
        previous_dest == IF destinations # <<>>
                         THEN Some(destinations[Len(destinations)])
                         ELSE get_slot(tracker, "departure_city")
        city_validation_result ==
            validate_city("next_destination", slot_value, airports, all_cities)
    IN  IF IsSet(previous_dest) /\ Lower(slot_value) = Lower(Val(previous_dest))
        THEN Out(<<KV("next_destination", None)>>,
                 <<Text("The next destination cannot be the same as the previous one")>>)
        ELSE IF IsSet(DictGet(city_validation_result.res, "next_destination"))
        THEN Out(<<KV("destinations",
                      Some(<<Val(DictGet(city_validation_result.res, "next_destination"))>>)),
                   KV("destinations_iata",
                      Some(<<Val(DictGet(city_validation_result.res, "next_destination_iata"))>>)),
                   KV("next_destination", None)>>,
                 city_validation_result.msgs)
        ELSE city_validation_result

validate_next_destination(slot_value, tracker, airports, all_cities) ==
    LET destinations == ListOf(get_slot(tracker, "destinations"))
        previous_dest == IF destinations # <<>>
                         THEN Some(destinations[Len(destinations)])
                         ELSE get_slot(tracker, "departure_city")
        city_validation_result ==
            validate_city("next_destination", slot_value, airports, all_cities)
    IN  IF IsSet(previous_dest) /\ Lower(slot_value) = Lower(Val(previous_dest))
        THEN Out(<<KV("next_destination", None)>>,
                 <<Text("The next destination cannot be the same as the previous one")>>)
        ELSE IF IsSet(DictGet(city_validation_result.res, "next_destination"))
        THEN Out(<<KV("destinations",
                      Some(Append(destinations,
                           Val(DictGet(city_validation_result.res, "next_destination"))))),
                   KV("destinations_iata",
                      Some(Append(ListOf(get_slot(tracker, "destinations_iata")),
                           Val(DictGet(city_validation_result.res, "next_destination_iata"))))),
                   KV("next_destination", None)>>,
                 city_validation_result.msgs)
        ELSE city_validation_result

----------------------------------------------------------------------------
(* Custom actions.  Each run hands back its events and its messages.       *)

Ran(evs, msgs) == [events |-> evs, msgs |-> msgs, raised |-> FALSE]

Crashed(msgs) == [events |-> <<>>, msgs |-> msgs, raised |-> TRUE]

FlightForm == "flight_booking_form"

\* ActionSetAirportFromClarification.run
ActionSetAirportFromClarification_run(tracker) ==
    LET city_slot_to_fill == get_slot(tracker, "ambiguous_city_slot")
        city_name == get_slot(tracker, "ambiguous_city_name")
        selected_iata == get_slot(tracker, "selected_iata_code")
    IN  IF ~(IsSet(city_slot_to_fill) /\ IsSet(city_name) /\ IsSet(selected_iata))
        THEN Ran(<<>>, <<>>)
        ELSE Ran(<<SlotSet(Val(city_slot_to_fill), city_name),
                   SlotSet(IataOf(Val(city_slot_to_fill)), selected_iata),
                   SlotSet("ambiguous_city_name", None),
                   SlotSet("ambiguous_city_slot", None),
                   SlotSet("selected_iata_code", None),
                   SlotSet("requested_slot", None)>>, <<>>)

\* ActionHandleCitySuggestion.run taking every answer as a refusal
ActionHandleCitySuggestion_run_refusing(tracker, intent, active_form) ==
    LET city_slot_to_fill == get_slot(tracker, "ambiguous_city_slot")
    IN  IF ~IsSet(city_slot_to_fill) \/ ~IsSet(active_form)
        THEN Ran(<<FollowupAction("action_listen")>>, <<>>)
        ELSE Ran(<<SlotSet("suggested_city", None),
                   SlotSet("ambiguous_city_slot", None),
                   SlotSet(Val(city_slot_to_fill), None)>>
                 \o (IF IataOf(Val(city_slot_to_fill)) \in SlotNames
                     THEN <<SlotSet(IataOf(Val(city_slot_to_fill)), None)>>
                     ELSE <<>>)
                 \o <<FollowupAction(Val(active_form))>>,
                 <<Text("My mistake. Could you please spell out the city name for me?")>>)

\* ActionHandleCitySuggestion.run
ActionHandleCitySuggestion_run(tracker, intent, active_form) ==
    LET suggested_city == get_slot(tracker, "suggested_city")
        city_slot_to_fill == get_slot(tracker, "ambiguous_city_slot")
    IN  IF ~IsSet(city_slot_to_fill) \/ ~IsSet(active_form)
        THEN Ran(<<FollowupAction("action_listen")>>, <<>>)
        ELSE IF intent = "affirm"
        THEN Ran(<<SlotSet("suggested_city", None),
                   SlotSet("ambiguous_city_slot", None),
                   SlotSet(Val(city_slot_to_fill), suggested_city),
                   FollowupAction(Val(active_form))>>, <<>>)
        ELSE Ran(<<SlotSet("suggested_city", None),
                   SlotSet("ambiguous_city_slot", None),
                   SlotSet(Val(city_slot_to_fill), None)>>
                 \o (IF IataOf(Val(city_slot_to_fill)) \in SlotNames
                     THEN <<SlotSet(IataOf(Val(city_slot_to_fill)), None)>>
                     ELSE <<>>)
                 \o <<FollowupAction(Val(active_form))>>,
                 <<Text("My mistake. Could you please spell out the city name for me?")>>)

\* ActionCancelBooking.run with the form left active
ActionCancelBooking_run_reset_only(tracker) ==
    Ran(<<AllSlotsReset>>, <<Response("utter_ok_cancelled")>>)

\* ActionCancelBooking.run
\* one phrase of the booking summary: its wording and the value it shows
SummaryPhrase(words, value) == [words |-> words, value |-> value]

\* _build_summary_sentence: the phrases that " ".join puts together
build_summary_sentence(tracker) ==
    LET trip_type == get_slot(tracker, "booking_trip_type")
        dep_city == get_slot(tracker, "departure_city")
        dest_city == get_slot(tracker, "destination_city")
        destinations == get_slot(tracker, "destinations")
        dep_date == get_slot(tracker, "departure_date")
        ret_date == get_slot(tracker, "return_date")
        passengers == get_slot(tracker, "number_of_passengers")
        airline == get_slot(tracker, "preferred_airline")
        travel_class == get_slot(tracker, "travel_class")
        phrase(on, words, value) == IF on THEN <<SummaryPhrase(words, value)>> ELSE <<>>
    IN  phrase(IsSet(trip_type), "a trip", trip_type)
        \o phrase(IsSet(passengers), "for passenger(s)", passengers)
        \o phrase(IsSet(dep_city),
                  IF ListOf(destinations) # <<>> THEN "from to legs"
                  ELSE IF IsSet(dest_city) THEN "from to" ELSE "from",
                  <<dep_city,
                    IF ListOf(destinations) # <<>> THEN destinations ELSE dest_city>>)
        \o phrase(IsSet(dep_date), "departing on", dep_date)
        \o phrase(IsSet(ret_date), "and returning on", ret_date)
        \o phrase(IsSet(travel_class), "in class", travel_class)
        \o phrase(IsSet(airline), "on", airline)

\* ActionReviewAndConfirm.run
ActionReviewAndConfirm_run(tracker) ==
    Ran(<<>>, <<ResponseButtons("utter_ask_confirm_details",
                    <<Payload("confirm_details", "", ""),
                      Payload("deny_details", "", "")>>)>>)

\* ActionConfirmBooking.run: the city the hotel is offered in
ActionConfirmBooking_destination(tracker) ==
    LET destination_city == get_slot(tracker, "destination_city")
        destinations == ListOf(get_slot(tracker, "destinations"))
    IN  IF ~IsSet(destination_city)
           /\ get_slot(tracker, "booking_trip_type") = Some("multi-city")
           /\ destinations # <<>>
        THEN Some(destinations[Len(destinations)])
        ELSE destination_city

\* the hotel offer: payload /book_hotel{"hotel_name": city} and /stop
HotelUpsell(city) ==
    TextButtons("Do you also need a hotel in the city?",
                <<Payload("book_hotel", "hotel_name", city), Payload("stop", "", "")>>)

ActionConfirmBooking_run(tracker) ==
    LET destination_city == ActionConfirmBooking_destination(tracker)
    IN  Ran(<<>>,
            <<Response("utter_booking_confirmed"),
              IF IsSet(destination_city)
              THEN HotelUpsell(Val(destination_city))
              ELSE Text("Is there anything else I can help you with?")>>)

ActionCancelBooking_run(tracker) ==
    Ran(<<ActiveLoop(None), AllSlotsReset>>, <<Response("utter_ok_cancelled")>>)

\* ActionAskConfirmCancellation.run
ActionAskConfirmCancellation_run(tracker) ==
    Ran(<<SlotSet("cancellation_pending", Some(TRUE))>>,
        <<Response("utter_ask_confirm_cancellation")>>)

\* ActionOfferFlightToDestination.run; city is the latest city entity
ActionOfferFlightToDestination_run(city, airports, all_cities) ==
    IF ~IsSet(city)
    THEN Ran(<<FollowupAction(FlightForm)>>, <<>>)
    ELSE LET validation_result ==
                 validate_city("destination_city", Val(city), airports, all_cities)
         IN  Ran(SlotSets(validation_result.res) \o <<FollowupAction(FlightForm)>>,
                 validation_result.msgs)

\* the button of one offer: /select_flight{"flight_id": "<flight_id>"}
ActionSearchFlights_button(flight) ==
    Payload("select_flight", "flight_id", flight.flight_id)

\* ActionSearchFlights.run after the search: the outcome message for the
\* three results, taken with a None result reported like an empty one
ActionSearchFlights_outcome_none_as_empty(flight_options) ==
    IF ListOf(flight_options) = <<>>
    THEN <<Text("I'm sorry, I couldn't find any flights for that route and date.")>>
    ELSE <<TextButtons("Here are some flights I found:",
               [i \in DOMAIN Val(flight_options) |->
                   ActionSearchFlights_button(Val(flight_options)[i])])>>

\* ActionSearchFlights.run after the search: flight_options is None when
\* the client failed, else Some(list of offers)
ActionSearchFlights_outcome(flight_options) ==
    IF flight_options = None
    THEN <<Response("utter_api_failure")>>
    ELSE IF Val(flight_options) = <<>>
    THEN <<Text("I'm sorry, I couldn't find any flights for that route and date.")>>
    ELSE <<TextButtons("Here are some flights I found:",
               [i \in DOMAIN Val(flight_options) |->
                   ActionSearchFlights_button(Val(flight_options)[i])])>>

\* ActionSearchFlights.run.  seat_pref and saved_airline are what the data
\* store holds for the user (read only with a pool, the airline only when
\* the conversation has none); flight_options is what the client returns.
ActionSearchFlights_run(tracker, has_pool, seat_pref, saved_airline, flight_options) ==
    IF get_slot(tracker, "booking_trip_type") = Some("multi-city")
    THEN IF ~IsSet(get_slot(tracker, "departure_city"))
            \/ ~IsSet(get_slot(tracker, "destinations"))
         THEN Crashed(<<>>)
         ELSE Ran(<<>>, <<Text("Okay! Searching for a multi-city trip"),
                          Text("Multi-city searches are complex.")>>)
    ELSE LET use_saved == has_pool /\ ~IsSet(get_slot(tracker, "preferred_airline"))
                          /\ IsSet(saved_airline)
             search_message ==
                 IF IsSet(get_slot(tracker, "return_date"))
                 THEN "Okay! Searching for round trip flights"
                 ELSE "Okay! Searching for one-way flights"
             seat_note == IF has_pool /\ IsSet(seat_pref)
                          THEN " I'll keep in mind you prefer a seat." ELSE ""
         IN  Ran(<<>>,
                 (IF use_saved
                  THEN <<Text("Just so you know, I'm using your saved preference")>>
                  ELSE <<>>)
                 \o <<Text(search_message \o seat_note)>>
                 \o ActionSearchFlights_outcome(flight_options))

\* ActionSearchFlights.run, the preferences block with the saved airline
\* taken whenever one is held
ActionSearchFlights_preferences_saved_first(tracker, has_pool, held_seat, held_airline) ==
    LET preferred_airline == get_slot(tracker, "preferred_airline")
    IN  IF ~has_pool
        THEN [reads |-> <<>>, seat_pref |-> None,
              preferred_airline |-> preferred_airline, saved |-> FALSE]
        ELSE [reads |-> <<"seat_preference", "preferred_airline">>, seat_pref |-> held_seat,
              preferred_airline |-> IF IsSet(held_airline) THEN held_airline
                                    ELSE preferred_airline,
              saved |-> IsSet(held_airline)]

\* ActionSearchFlights.run, the preferences block: held_seat and
\* held_airline are what get_user_preference returns for the two keys; reads
\* lists the keys asked for, saved tells the saved airline is used
ActionSearchFlights_preferences(tracker, has_pool, held_seat, held_airline) ==
    LET preferred_airline == get_slot(tracker, "preferred_airline")
    IN  IF ~has_pool
        THEN [reads |-> <<>>, seat_pref |-> None,
              preferred_airline |-> preferred_airline, saved |-> FALSE]
        ELSE IF IsSet(preferred_airline) /\ Val(preferred_airline) # ""
        THEN [reads |-> <<"seat_preference">>, seat_pref |-> held_seat,
              preferred_airline |-> preferred_airline, saved |-> FALSE]
        ELSE [reads |-> <<"seat_preference", "preferred_airline">>, seat_pref |-> held_seat,
              preferred_airline |-> IF IsSet(held_airline) /\ Val(held_airline) # ""
                                    THEN held_airline ELSE preferred_airline,
              saved |-> IsSet(held_airline) /\ Val(held_airline) # ""]

\* the arguments of flight_api.search
ActionSearchFlights_search(tracker, preferences) ==
    [departure_city |-> get_slot(tracker, "departure_city_iata"),
     destination_city |-> get_slot(tracker, "destination_city_iata"),
     departure_date |-> get_slot(tracker, "departure_date"),
     return_date |-> get_slot(tracker, "return_date"),
     passengers |-> get_slot(tracker, "number_of_passengers"),
     preferred_airline |-> preferences.preferred_airline,
     frequent_flyer_number |-> get_slot(tracker, "frequent_flyer_number"),
     seat_preference |-> preferences.seat_pref,
     travel_class |-> get_slot(tracker, "travel_class"),
     destinations |-> get_slot(tracker, "destinations_iata")]

----------------------------------------------------------------------------
(* ActionHandleCorrection.                                                 *)

Entity(entity, value, role) == [entity |-> entity, value |-> value, role |-> role]

\* next((e for e in all_entities if e.get("entity") == name), None)
FirstEntity(all_entities, name) ==
    LET found == SelectSeq(all_entities, LAMBDA e : e.entity = name)
    IN  IF found = <<>> THEN None ELSE Some(found[1])

ordinal_to_int(ordinal_string) ==
    CASE Lower(ordinal_string) \in {"first", "1st"} -> Some(0)
      [] Lower(ordinal_string) \in {"second", "2nd"} -> Some(1)
      [] Lower(ordinal_string) \in {"third", "3rd"} -> Some(2)
      [] Lower(ordinal_string) \in {"fourth", "4th"} -> Some(3)
      [] Lower(ordinal_string) = "last" -> Some(0 - 1)
      [] OTHER -> None

Abs(n) == IF n < 0 THEN 0 - n ELSE n

\* the 1-based position of Python's list[index], 0 when it raises IndexError
PyPos(list, index) ==
    LET pos == IF index < 0 THEN Len(list) + index + 1 ELSE index + 1
    IN  IF pos \in DOMAIN list THEN pos ELSE 0

handle_city_correction_index_ok(index, destinations) ==
    IsSet(index) /\ Abs(Val(index)) < Len(destinations)

\* the leg to replace taken with the first leg as the default
handle_city_correction_target_first(ordinal_entity, index) ==
    IF IsSet(ordinal_entity) THEN Val(index) ELSE 0

\* the leg to replace: the ordinal's index, the last leg without an ordinal
handle_city_correction_target(ordinal_entity, index) ==
    IF IsSet(ordinal_entity) THEN Val(index) ELSE 0 - 1

handle_city_correction_multi(entity, all_entities, tracker, airports, all_cities) ==
    LET destinations == ListOf(get_slot(tracker, "destinations"))
        destinations_iata == ListOf(get_slot(tracker, "destinations_iata"))
        ordinal_entity == FirstEntity(all_entities, "ordinal")
        index == IF IsSet(ordinal_entity)
                 THEN ordinal_to_int(Val(ordinal_entity).value) ELSE None
        target_index == handle_city_correction_target(ordinal_entity, index)
        validation_result ==
            validate_city("next_destination", entity.value, airports, all_cities)
    IN  IF destinations = <<>>
        THEN Out(<<>>, <<>>)
        ELSE IF IsSet(ordinal_entity)
                /\ ~handle_city_correction_index_ok(index, destinations)
        THEN Out(<<>>, <<Text("I can't correct that destination")>>)
        ELSE IF IsSet(DictGet(validation_result.res, "next_destination"))
        THEN IF PyPos(destinations_iata, target_index) = 0
             THEN Raise(validation_result.msgs)
             ELSE Out(<<KV("destinations",
                           Some([destinations EXCEPT
                                    ![PyPos(destinations, target_index)] =
                                        Val(DictGet(validation_result.res, "next_destination"))])),
                        KV("destinations_iata",
                           Some([destinations_iata EXCEPT
                                    ![PyPos(destinations_iata, target_index)] =
                                        Val(DictGet(validation_result.res, "next_destination_iata"))]))>>,
                      validation_result.msgs)
        ELSE Out(<<>>, validation_result.msgs)

\* the one-way or round-trip branch taken with the origin's validator
handle_city_correction_single_as_departure(entity, tracker, airports, all_cities) ==
    validate_departure_city(entity.value, tracker, airports, all_cities)

\* the one-way or round-trip branch of a destination correction
handle_city_correction_single(entity, tracker, airports, all_cities) ==
    validate_destination_city(entity.value, tracker, airports, all_cities)

handle_city_correction(entity, all_entities, tracker, airports, all_cities) ==
    LET trip_type == get_slot(tracker, "booking_trip_type")
    IN  IF entity.role = "departure"
        THEN validate_departure_city(entity.value, tracker, airports, all_cities)
        ELSE IF entity.role = "destination"
        THEN IF trip_type = Some("multi-city")
             THEN handle_city_correction_multi(entity, all_entities, tracker,
                                               airports, all_cities)
             ELSE handle_city_correction_single(entity, tracker, airports, all_cities)
        ELSE Out(<<>>, <<>>)

\* entity_to_validator_map and the call of the mapped validator
handle_generic_correction(entity, tracker) ==
    CASE entity.entity = "number_of_passengers" ->
            validate_number_of_passengers(entity.value, tracker)
      [] entity.entity = "booking_trip_type" ->
            validate_booking_trip_type(entity.value, tracker)
      [] entity.entity = "departure_date" ->
            validate_departure_date(Some(entity.value), tracker)
      [] entity.entity = "return_date" ->
            validate_return_date(Some(entity.value), tracker)
      [] OTHER -> Out(<<>>, <<>>)

\* the loop over the entities that are neither city nor ordinal
RECURSIVE generic_corrections(_, _, _)
generic_corrections(entities, tracker, acc) ==
    IF entities = <<>> \/ acc.raised THEN acc
    ELSE LET entity == Head(entities)
             correction == IF entity.entity \in {"city", "ordinal"}
                           THEN Out(<<>>, <<>>)
                           ELSE handle_generic_correction(entity, tracker)
         IN  generic_corrections(Tail(entities), tracker,
                 [res |-> DictUpdate(acc.res, correction.res),
                  msgs |-> acc.msgs \o correction.msgs,
                  raised |-> correction.raised])

\* the test taken without its all(value is None ...) half
ActionHandleCorrection_unusable_when_empty(corrected_slots) == corrected_slots = <<>>

\* not corrected_slots or all(value is None for value in corrected_slots.values())
ActionHandleCorrection_unusable(corrected_slots) ==
    corrected_slots = <<>> \/ \A i \in DOMAIN corrected_slots : corrected_slots[i].value = None

ActionHandleCorrection_run(tracker, all_entities, airports, all_cities) ==
    LET city_entity == FirstEntity(all_entities, "city")
        city == IF IsSet(city_entity)
                THEN handle_city_correction(Val(city_entity), all_entities, tracker,
                                            airports, all_cities)
                ELSE Out(<<>>, <<>>)
        all == generic_corrections(all_entities, tracker, city)
    IN  IF all.raised
        THEN Crashed(all.msgs)
        ELSE IF ActionHandleCorrection_unusable(all.res)
        THEN Ran(<<FollowupAction("action_review_and_confirm")>>,
                 all.msgs \o <<Text("I'm sorry, I didn't understand the correction")>>)
        ELSE Ran(SlotSets(all.res) \o <<FollowupAction("action_review_and_confirm")>>,
                 all.msgs)

----------------------------------------------------------------------------
(* The host: it applies the events a run returns to the tracker.           *)

\* the active form after one event: ActiveLoop sets it, and a follow-up
\* that names the flight form runs (and so activates) that form
ApplyLoopEvent(loop, e) ==
    CASE e.event = "active_loop" -> e.value
      [] e.event = "followup" /\ e.name = FlightForm -> Some(FlightForm)
      [] OTHER -> loop

RECURSIVE ApplyLoop(_, _)
ApplyLoop(loop, es) ==
    IF es = <<>> THEN loop ELSE ApplyLoop(ApplyLoopEvent(loop, Head(es)), Tail(es))

\* the record of one run: its name, what it was given and what it read from
\* outside, the day it ran on
CallOf(op, value, airports, all_cities, raised) ==
    [op |-> op, value |-> value, airports |-> airports,
     all_cities |-> all_cities, raised |-> raised, on |-> today]

\* one run of a custom action on `tracker`
Run(op, value, airports, all_cities, tracker, ran) ==
    /\ slots' = IF ran.raised THEN tracker ELSE ApplyEvents(tracker, ran.events)
    /\ active_loop' = ApplyLoop(active_loop, ran.events)
    /\ messages' = ran.msgs
    /\ events' = ran.events
    /\ call' = CallOf(op, value, airports, all_cities, ran.raised)
    /\ UNCHANGED <<pool, db_vars, today, cache_vars>>

\* one run of the form's validation action for one filled slot: the form
\* is active and the slot is one the form requires
Validating(slot_name) ==
    /\ active_loop = Some(FlightForm)
    /\ slot_name \in Range(required_slots(slots))

FormRun(op, value, airports, all_cities, out) ==
    Run(op, value, airports, all_cities, slots,
        IF out.raised THEN Crashed(out.msgs) ELSE Ran(SlotSets(out.res), out.msgs))

----------------------------------------------------------------------------
(* What the user types and what the data store answers.                    *)

\* cities typed in a single-destination booking: one airport (two
\* spellings), two airports, a typo scoring 91, a typo scoring 80
TypedCities == {"Paris", "paris", "London", "Pariss", "Tokio"}

\* legs typed in a multi-city booking
TypedLegs == {"Paris", "paris", "Tokyo", "London", "Pariss"}

TripTypeAnswers == {"One-way", "oneway", "Round trip", "Multi-city", "return"}

PassengerAnswers == {"1", "4", "5", "0", "-2", "a couple"}

OrdinalWords == {"first", "2nd", "last"}

\* the airport button the user clicks
AirportCodes == {"LGW"}

----------------------------------------------------------------------------
(* Actions of the model.                                                   *)

ValidateBookingTripType(v) ==
    /\ Validating("booking_trip_type")
    /\ FormRun("validate_booking_trip_type", v, <<>>, <<>>,
               validate_booking_trip_type(v, slots))

ValidateAddMoreDestinations(v) ==
    /\ Validating("add_more_destinations")
    /\ FormRun("validate_add_more_destinations", v, <<>>, <<>>,
               validate_add_more_destinations(v, slots))

ValidateNumberOfPassengers(v) ==
    /\ Validating("number_of_passengers")
    /\ FormRun("validate_number_of_passengers", v, <<>>, <<>>,
               validate_number_of_passengers(v, slots))

HotelForm == "hotel_booking_form"

CarForm == "car_booking_form"

ValidateDepartureDate(v) ==
    /\ Validating("departure_date")
    /\ FormRun("validate_departure_date", v, <<>>, <<>>,
               validate_departure_date(Some(v), slots))

ValidateReturnDate(v) ==
    /\ Validating("return_date")
    /\ FormRun("validate_return_date", v, <<>>, <<>>,
               validate_return_date(Some(v), slots))

ValidateCheckInDate(v) ==
    /\ active_loop = Some(HotelForm)
    /\ FormRun("validate_check_in_date", v, <<>>, <<>>,
               validate_check_in_date(Some(v), slots))

ValidateCheckOutDate(v) ==
    /\ active_loop = Some(HotelForm)
    /\ FormRun("validate_check_out_date", v, <<>>, <<>>,
               validate_check_out_date(Some(v), slots))

ValidatePickupLocation(v) ==
    /\ active_loop = Some(CarForm)
    /\ FormRun("validate_pickup_location", v, <<>>, get_all_city_names(pool),
               validate_pickup_location(v, get_all_city_names(pool)))

ValidatePickupDate(v) ==
    /\ active_loop = Some(CarForm)
    /\ FormRun("validate_pickup_date", v, <<>>, <<>>,
               validate_pickup_date(Some(v), slots))

ValidateDropoffDate(v) ==
    /\ active_loop = Some(CarForm)
    /\ FormRun("validate_dropoff_date", v, <<>>, <<>>,
               validate_dropoff_date(Some(v), slots))

\* midnight: the calendar day advances
DayPasses ==
    /\ today < MaxDay
    /\ today' = today + 1
    /\ UNCHANGED <<slots, active_loop, pool, db_vars, messages, events, call, cache_vars>>

\* what the data store answers to one city validation: the airports of the
\* city and, asked only when there are none, the known city names
AirportsRead(v) == get_airports_for_city(v, pool)

CitiesRead(v) == IF AirportsRead(v) = <<>> THEN get_all_city_names(pool) ELSE <<>>

ValidateDepartureCity(v) ==
    /\ Validating("departure_city")
    /\ FormRun("validate_departure_city", v, AirportsRead(v), CitiesRead(v),
               validate_departure_city(v, slots, AirportsRead(v),
                                       CitiesRead(v)))

ValidateDestinationCity(v) ==
    /\ Validating("destination_city")
    /\ FormRun("validate_destination_city", v, AirportsRead(v), CitiesRead(v),
               validate_destination_city(v, slots, AirportsRead(v),
                                         CitiesRead(v)))

ValidateNextDestination(v) ==
    /\ Validating("next_destination")
    /\ Len(ListOf(slots["destinations"])) < MaxLegs
    /\ FormRun("validate_next_destination", v, AirportsRead(v), CitiesRead(v),
               validate_next_destination(v, slots, AirportsRead(v),
                                         CitiesRead(v)))

\* the user picks an airport button (sel) or the rule fires without one
SetAirportFromClarification(sel) ==
    LET tracker == IF IsSet(sel) THEN [slots EXCEPT !["selected_iata_code"] = sel]
                   ELSE slots
    IN  Run("action_set_airport_from_clarification", sel, <<>>, <<>>, tracker,
            ActionSetAirportFromClarification_run(tracker))

HandleCitySuggestion(intent) ==
    Run("action_handle_city_suggestion", intent, <<>>, <<>>, slots,
        ActionHandleCitySuggestion_run(slots, intent, active_loop))

OfferFlightToDestination(city) ==
    LET airports == IF IsSet(city) THEN AirportsRead(Val(city)) ELSE <<>>
        all_cities == IF IsSet(city) THEN CitiesRead(Val(city)) ELSE <<>>
    IN  Run("action_offer_flight_to_destination", city, airports, all_cities, slots,
            ActionOfferFlightToDestination_run(city, airports, all_cities))

\* the tracker a run was given: the active form and the slots
Before == [loop |-> active_loop, tracker |-> slots]

\* the review; value.summary is the summary the response is filled with
ReviewAndConfirm ==
    Run("action_review_and_confirm", [summary |-> build_summary_sentence(slots)],
        <<>>, <<>>, slots, ActionReviewAndConfirm_run(slots))

ConfirmBooking ==
    Run("action_confirm_booking", Before, <<>>, <<>>, slots, ActionConfirmBooking_run(slots))

CancelBooking ==
    Run("action_cancel_booking", Before, <<>>, <<>>, slots, ActionCancelBooking_run(slots))

AskConfirmCancellation ==
    /\ slots["cancellation_pending"] = None
    /\ Run("action_ask_confirm_cancellation", Before, <<>>, <<>>, slots,
           ActionAskConfirmCancellation_run(slots))

HandleCorrection(all_entities) ==
    LET city_entity == FirstEntity(all_entities, "city")
        airports == IF IsSet(city_entity)
                    THEN AirportsRead(Val(city_entity).value) ELSE <<>>
        all_cities == IF IsSet(city_entity)
                      THEN CitiesRead(Val(city_entity).value) ELSE <<>>
    IN  Run("action_handle_correction", all_entities, airports, all_cities, slots,
            ActionHandleCorrection_run(slots, all_entities, airports, all_cities))

\* one run of the search: what the data store and the client answer
SearchFlights(seat_pref, saved_airline, flight_options) ==
    LET multi == slots["booking_trip_type"] = Some("multi-city")
        seat_read == IF pool /\ ~multi THEN seat_pref ELSE None
        airline_read == IF pool /\ ~multi /\ ~IsSet(slots["preferred_airline"])
                        THEN saved_airline ELSE None
        options_read == IF multi THEN None ELSE flight_options
    IN  Run("action_search_flights",
            [seat_pref |-> seat_read, saved_airline |-> airline_read,
             flight_options |-> options_read],
            <<>>, <<>>, slots,
            ActionSearchFlights_run(slots, pool, seat_read, airline_read, options_read))

----------------------------------------------------------------------------
(* The shared result cache (RedisCache), the Redis server behind it, and a *)
(* provider client that caches its results (HertzApiClient).  A Python     *)
(* value is a record of its type and items; the text Redis holds is a JSON *)
(* array or malformed text.                                                *)

\* the clock stops here
MaxNow == 3

\* RedisCache.ttl, in seconds
Ttl == 2

\* the upstream requests counted
MaxRequests == 3

PyList(items) == [type |-> "list", items |-> items]

\* a value json.dumps has no encoder for
PyDatetime == [type |-> "datetime", items |-> <<>>]

\* what a call hands back: a value, or the class of the exception it raises
Ok(ret) == [exc |-> "", ret |-> ret]

Exc(class) == [exc |-> class, ret |-> None]

JsonArray(items) == [json |-> "array", items |-> items]

Malformed == [json |-> "malformed", items |-> <<>>]

json_dumps(value) ==
    IF value.type = "list" THEN Ok(JsonArray(value.items)) ELSE Exc("TypeError")

json_loads(text) ==
    IF text.json = "array" THEN Ok(PyList(text.items)) ELSE Exc("JSONDecodeError")

\* the Redis server holds the key and the entry has not expired
Live(st, t, key) == IsSet(st[key]) /\ t < Val(st[key]).expires

\* redis.Redis.exists, get and setex; fault is the class of the error the
\* store raises, "" when it answers
redis_exists(st, t, key, fault) ==
    IF fault # "" THEN Exc(fault) ELSE Ok(Live(st, t, key))

redis_get(st, t, key, fault) ==
    IF fault # "" THEN Exc(fault)
    ELSE Ok(IF Live(st, t, key) THEN Some(Val(st[key]).text) ELSE None)

redis_setex(st, t, key, ttl, text, fault) ==
    IF fault # "" THEN Exc(fault)
    ELSE Ok([st EXCEPT ![key] = Some([text |-> text, expires |-> t + ttl])])

\* RedisCache.__init__: the connectivity check decides self.redis
RedisCache_init(ping) ==
    IF ping \in {"ConnectionError", "TimeoutError"} THEN None ELSE Some("redis")

\* what one cache operation did: its return value, whether it raised to its
\* caller, the store afterwards and whether the store was contacted
Did(ret, raised, st, contacted) ==
    [ret |-> ret, raised |-> raised, store |-> st, contacted |-> contacted]

\* the except clause of __contains__ taken with no class caught
RedisCache_contains_caught_nothing == {}

\* the exception classes __contains__ catches
RedisCache_contains_caught == {"RedisError"}

RedisCache_contains(cache, st, t, key, fault) ==
    IF cache = None THEN Did(FALSE, FALSE, st, FALSE)
    ELSE LET exists == redis_exists(st, t, key, fault)
         IN  IF exists.exc = "" THEN Did(exists.ret, FALSE, st, TRUE)
             ELSE IF exists.exc \in RedisCache_contains_caught
             THEN Did(FALSE, FALSE, st, TRUE)
             ELSE Did(None, TRUE, st, TRUE)

\* the read taken with the text handed back undecoded
RedisCache_getitem_undecoded(cached_value) == Ok(cached_value)

\* json.loads(cached_value)
RedisCache_getitem_decoded(cached_value) == json_loads(cached_value)

\* the exception classes __getitem__ catches
RedisCache_getitem_caught == {"JSONDecodeError", "RedisError"}

RedisCache_getitem(cache, st, t, key, fault) ==
    IF cache = None THEN Did(None, FALSE, st, FALSE)
    ELSE LET got == redis_get(st, t, key, fault)
             decoded == IF got.exc # "" THEN got
                        ELSE IF got.ret = None THEN Ok(None)
                        ELSE LET loaded == RedisCache_getitem_decoded(Val(got.ret))
                             IN  IF loaded.exc = "" THEN Ok(Some(loaded.ret)) ELSE loaded
         IN  IF decoded.exc = "" THEN Did(decoded.ret, FALSE, st, TRUE)
             ELSE IF decoded.exc \in RedisCache_getitem_caught
             THEN Did(None, FALSE, st, TRUE)
             ELSE Did(None, TRUE, st, TRUE)

\* the exception classes __setitem__ catches
RedisCache_setitem_caught == {"TypeError", "RedisError"}

RedisCache_setitem(cache, st, t, key, value, fault) ==
    IF cache = None THEN Did(None, FALSE, st, FALSE)
    ELSE LET serialized_value == json_dumps(value)
             set == IF serialized_value.exc # "" THEN serialized_value
                    ELSE redis_setex(st, t, key, Ttl, serialized_value.ret, fault)
         IN  IF set.exc = "" THEN Did(None, FALSE, set.ret, TRUE)
             ELSE IF set.exc \in RedisCache_setitem_caught
             THEN Did(None, FALSE, st, serialized_value.exc = "")
             ELSE Did(None, TRUE, st, serialized_value.exc = "")

\* the search parameters: pickup location, dates and car type
Params(location) ==
    [pickup_location |-> location, pickup_date |-> "2025-03-10",
     dropoff_date |-> "2025-03-12", vehicle_class |-> "SUV"]

\* str(tuple(sorted(params.items())))
cache_key(params) ==
    [str |-> <<<<"dropoff_date", params.dropoff_date>>,
               <<"pickup_date", params.pickup_date>>,
               <<"pickup_location", params.pickup_location>>,
               <<"vehicle_class", params.vehicle_class>>>>]

\* HertzApiClient._transform_response: one offer per available vehicle
Vehicle(id) == [vehicle_id |-> id, vehicle_name |-> "Toyota Camry", daily_rate_usd |-> 55]

transform_response(available_vehicles) ==
    PyList([i \in DOMAIN available_vehicles |->
               [provider |-> "Hertz", model |-> available_vehicles[i].vehicle_name,
                price_per_day |-> available_vehicles[i].daily_rate_usd,
                id |-> available_vehicles[i].vehicle_id]])

\* ---- a client that signs its searches with an OAuth2 token
\* (AmadeusApiClient): a response is the failure of the request (a transport
\* error or a status that is not 2xx) or the body of a 2xx answer, whose
\* fields may be missing

\* the seconds _get_access_token takes off a token's stated lifetime
TokenMargin == 300

TokenFailed == [failed |-> TRUE, access_token |-> None, expires_in |-> None]

TokenBody(access_token, expires_in) ==
    [failed |-> FALSE, access_token |-> access_token, expires_in |-> expires_in]

ApiFailed == [failed |-> TRUE, data |-> <<>>]

ApiBody(data) == [failed |-> FALSE, data |-> data]

\* one flight offer of a search response: how many segments its first
\* itinerary has and the text of the first segment's departure time
FlightOffer(segments, at) ==
    [carrierCode |-> "BA", number |-> "117", segments |-> segments, at |-> at,
     total |-> 350]

\* dateparser.parse(first_segment["departure"]["at"]).strftime("%H:%M");
\* None when dateparser.parse returns None
DepartureTime(at) == IF at = "2025-03-10T08:00:00" THEN Some("08:00") ELSE None

\* the exception one offer makes _transform_response raise, "" when none
AmadeusApiClient_transform_offer(offer) ==
    IF offer.segments = 0 THEN "IndexError"
    ELSE IF DepartureTime(offer.at) = None THEN "AttributeError"
    ELSE ""

AmadeusApiClient_transform_response(response) ==
    LET bad == {i \in DOMAIN response.data :
                   AmadeusApiClient_transform_offer(response.data[i]) # ""}
    IN  IF bad # {}
        THEN Exc(AmadeusApiClient_transform_offer(
                     response.data[CHOOSE i \in bad : \A j \in bad : i <= j]))
        ELSE Ok(PyList([i \in DOMAIN response.data |->
                   [airline |-> "Unknown Airline",
                    time |-> Val(DepartureTime(response.data[i].at)),
                    price |-> response.data[i].total,
                    flight_id |-> response.data[i].carrierCode
                                      \o response.data[i].number]]))

\* the exception classes the except clause of _get_access_token and of
\* search catches: RequestException covers transport errors and HTTPError
AmadeusApiClient_caught == {"RequestException"}

\* what _get_access_token did: the token it returns, the exception it lets
\* through, the client afterwards and whether it posted a token request
AmadeusApiClient_get_access_token(self, t, response) ==
    IF IsSet(self.access_token) /\ t < self.token_expiry_time
    THEN [ret |-> self.access_token, exc |-> "", self |-> self, posted |-> FALSE]
    ELSE IF response.failed
    THEN [ret |-> None,
          exc |-> IF "RequestException" \in AmadeusApiClient_caught
                  THEN "" ELSE "RequestException",
          self |-> self, posted |-> TRUE]
    ELSE IF response.access_token = None
    THEN [ret |-> None, exc |-> "KeyError", self |-> self, posted |-> TRUE]
    ELSE IF response.expires_in = None
    THEN [ret |-> None, exc |-> "KeyError",
          self |-> [self EXCEPT !.access_token = response.access_token],
          posted |-> TRUE]
    ELSE [ret |-> response.access_token, exc |-> "",
          self |-> [self EXCEPT !.access_token = response.access_token,
                                !.token_expiry_time =
                                    t + Val(response.expires_in) - TokenMargin],
          posted |-> TRUE]

\* the configuration test taken without looking at the token
AmadeusApiClient_search_credentials_only(access_token, client_id, client_secret) ==
    ~client_id \/ ~client_secret

\* if not access_token or not self.client_id or not self.client_secret
AmadeusApiClient_search_unconfigured(access_token, client_id, client_secret) ==
    ~IsSet(access_token) \/ ~client_id \/ ~client_secret

\* the search parameters sent to Amadeus
AmadeusParams(origin) ==
    [originLocationCode |-> origin, destinationLocationCode |-> "CDG",
     departureDate |-> "2025-03-10", adults |-> 1, nonStop |-> "true",
     currencyCode |-> "USD", travelClass |-> "ECONOMY", max |-> 5]

\* str(tuple(sorted(params.items()))) of those parameters
AmadeusApiClient_cache_key(params) ==
    [str |-> <<<<"adults", "1">>,
               <<"currencyCode", params.currencyCode>>,
               <<"departureDate", params.departureDate>>,
               <<"destinationLocationCode", params.destinationLocationCode>>,
               <<"max", "5">>,
               <<"nonStop", params.nonStop>>,
               <<"originLocationCode", params.originLocationCode>>,
               <<"travelClass", params.travelClass>>>>]

\* ---- what the user asks for and what the outside answers

SearchParams == {Params("London"), Params("Paris")}

FlightParams == {AmadeusParams("LHR")}

StoreKeys ==
    {cache_key(params) : params \in SearchParams}
    \cup {AmadeusApiClient_cache_key(params) : params \in FlightParams}

EmptyStore == [key \in StoreKeys |-> None]

\* the errors the store raises during an operation
Faults == {"", "RedisError"}

\* the values written to the cache directly
CachedValues == {PyList(<<>>), PyList(<<"HERTZ001">>), PyDatetime}

\* what the token endpoint answers: the request fails, a token good for
\* two seconds beyond the margin, or a body without access_token
TokenResponses ==
    {TokenFailed, TokenBody(Some("token"), Some(TokenMargin + 2)),
     TokenBody(None, Some(TokenMargin + 2))}

\* what the flight search answers: the request fails, no offer, one offer,
\* an offer without segments, an offer whose departure time is no time
ApiResponses ==
    {ApiFailed, ApiBody(<<>>), ApiBody(<<FlightOffer(1, "2025-03-10T08:00:00")>>),
     ApiBody(<<FlightOffer(0, "2025-03-10T08:00:00")>>),
     ApiBody(<<FlightOffer(1, "soon")>>)}

\* what the provider answers: the vehicles, or the request fails
Upstream == {Some(<<>>), Some(<<Vehicle("HERTZ001")>>), None}

\* ---- the cache operations, called directly

\* the last cache operation: its arguments, what the store raised, the
\* store it was given, and what it answered (found for the membership test,
\* ret for a read)
CacheCall(op, key, value, fault, st, did, found, ret) ==
    CallOf(op, [key |-> key, value |-> value, fault |-> fault, before |-> st,
                found |-> found, ret |-> ret, contacted |-> did.contacted],
           <<>>, <<>>, did.raised)

CacheOp(op, key, value, fault, did, found, ret) ==
    /\ store' = did.store
    /\ call' = CacheCall(op, key, value, fault, store, did, found, ret)
    /\ UNCHANGED <<slots, active_loop, pool, db_vars, messages, events, today, redis, now, search>>

CacheContains(key, fault) ==
    LET did == RedisCache_contains(redis, store, now, key, fault)
    IN  CacheOp("RedisCache.__contains__", key, None, fault, did,
                ~did.raised /\ did.ret, None)

CacheGet(key, fault) ==
    LET did == RedisCache_getitem(redis, store, now, key, fault)
    IN  CacheOp("RedisCache.__getitem__", key, None, fault, did, FALSE, did.ret)

CacheSet(key, value, fault) ==
    LET did == RedisCache_setitem(redis, store, now, key, value, fault)
    IN  CacheOp("RedisCache.__setitem__", key, Some(value), fault, did, FALSE, None)

\* ---- the Redis server on its own

\* a second passes; an entry whose time is up is gone
Tick ==
    /\ now < MaxNow
    /\ now' = now + 1
    /\ UNCHANGED <<slots, active_loop, pool, db_vars, messages, events, call, today,
                   redis, store, search>>

\* the text under a key is damaged
Corrupt(key) ==
    /\ Live(store, now, key)
    /\ Val(store[key]).text # Malformed
    /\ store' = [store EXCEPT ![key] = Some([Val(store[key]) EXCEPT !.text = Malformed])]
    /\ UNCHANGED <<slots, active_loop, pool, db_vars, messages, events, call, today,
                   redis, now, search>>

\* ---- one search of the provider client, step by step

\* no search is under way; written is, per search, the result of the last
\* search whose write reached the store and when it was written
Idle(api_key) ==
    [pc |-> "idle", api_key |-> api_key, params |-> None, result |-> None,
     requests |-> 0, written |-> [params \in SearchParams |-> None]]

\* the client and its cache are not in use
NoSearch ==
    /\ redis = None
    /\ store = EmptyStore
    /\ now = 0
    /\ search = Idle(FALSE)

\* search up to the membership test: no key, no search; a key found is
\* read next, a key not found is requested upstream next
SearchBegin(params, fault) ==
    LET cached == RedisCache_contains(redis, store, now, cache_key(params), fault)
    IN  /\ search.pc \in {"idle", "done"}
        /\ search' = IF ~search.api_key
                     THEN [search EXCEPT !.pc = "done", !.params = Some(params),
                                         !.result = None]
                     ELSE [search EXCEPT !.pc = IF cached.ret THEN "hit" ELSE "miss",
                                         !.params = Some(params), !.result = None]
        /\ call' = CacheCall("search: cache_key in self.cache", cache_key(params), None,
                             fault, store, cached, cached.ret, None)
        /\ UNCHANGED <<slots, active_loop, pool, db_vars, messages, events, today,
                       redis, store, now>>

\* return self.cache[cache_key]
SearchRead(fault) ==
    LET key == cache_key(Val(search.params))
        read == RedisCache_getitem(redis, store, now, key, fault)
    IN  /\ search.pc = "hit"
        /\ search' = [search EXCEPT !.pc = "done", !.result = read.ret]
        /\ call' = CacheCall("search: return self.cache[cache_key]", key, None, fault,
                             store, read, FALSE, read.ret)
        /\ UNCHANGED <<slots, active_loop, pool, db_vars, messages, events, today,
                       redis, store, now>>

\* the request to the provider, the write to the cache and the return
SearchUpstream(api_response, fault) ==
    LET params == Val(search.params)
        key == cache_key(params)
        transformed_response == transform_response(Val(api_response))
        set == RedisCache_setitem(redis, store, now, key, transformed_response, fault)
    IN  /\ search.pc = "miss"
        /\ search.requests < MaxRequests
        /\ IF api_response = None
           THEN /\ search' = [search EXCEPT !.pc = "done", !.result = None,
                                            !.requests = @ + 1]
                /\ call' = CacheCall("search: requests.get", key, None, "", store,
                                     Did(None, FALSE, store, FALSE), FALSE, None)
                /\ store' = store
           ELSE /\ search' = [search EXCEPT
                                 !.pc = "done",
                                 !.result = Some(transformed_response),
                                 !.requests = @ + 1,
                                 !.written[params] =
                                     IF redis # None /\ fault = ""
                                     THEN Some([value |-> transformed_response, at |-> now])
                                     ELSE @]
                /\ call' = CacheCall("search: requests.get", key,
                                     Some(transformed_response), fault, store, set,
                                     FALSE, None)
                /\ store' = set.store
        /\ UNCHANGED <<slots, active_loop, pool, db_vars, messages, events, today, redis, now>>

\* ---- one search of the OAuth client, step by step

\* no search is under way and no token has been fetched; token_requests and
\* search_requests count the requests of the search under way
IdleOAuth(client_id, client_secret) ==
    [pc |-> "idle", client_id |-> client_id, client_secret |-> client_secret,
     access_token |-> None, token_expiry_time |-> 0,
     params |-> None, result |-> None, raised |-> FALSE,
     token_requests |-> 0, search_requests |-> 0, requests |-> 0,
     token_response |-> None, api_response |-> None]

\* search up to the membership test: the token is fetched if none is held,
\* then the configuration is tested, then the key is looked up
AmadeusSearchOn(self, params, token_response, fault) ==
    LET token == AmadeusApiClient_get_access_token(self, now, token_response)
        key == AmadeusApiClient_cache_key(params)
        stopped == token.exc # ""
                   \/ AmadeusApiClient_search_unconfigured(
                          token.ret, self.client_id, self.client_secret)
        cached == IF stopped THEN Did(FALSE, FALSE, store, FALSE)
                  ELSE RedisCache_contains(redis, store, now, key, fault)
        started == [token.self EXCEPT
                       !.params = Some(params), !.result = None, !.raised = FALSE,
                       !.token_requests = IF token.posted THEN 1 ELSE 0,
                       !.search_requests = 0,
                       !.token_response = IF token.posted THEN Some(token_response)
                                          ELSE None,
                       !.api_response = None]
    IN  /\ search.pc \in {"idle", "done"}
        /\ search' = IF stopped
                     THEN [started EXCEPT !.pc = "done", !.raised = token.exc # ""]
                     ELSE [started EXCEPT !.pc = IF cached.ret THEN "hit" ELSE "miss"]
        /\ call' = CacheCall("search: cache_key in self.cache", key, None,
                             IF stopped THEN "" ELSE fault, store, cached,
                             cached.ret, None)
        /\ UNCHANGED <<slots, active_loop, pool, db_vars, messages, events, today,
                       redis, store, now>>

\* a search on the client that made the search before
AmadeusBegin(params, token_response, fault) ==
    AmadeusSearchOn(search, params, token_response, fault)

\* get_api_client: return client_class(), a client constructed on every call
\* from the same environment; requests is the count of the whole process
get_api_client(self) ==
    [IdleOAuth(self.client_id, self.client_secret) EXCEPT !.requests = self.requests]

\* ActionSearchFlights.run with the Amadeus provider: flight_api =
\* get_api_client() and flight_api.search_flights(...) up to the membership
\* test
ActionSearchFlights_amadeus(params, token_response, fault) ==
    AmadeusSearchOn(get_api_client(search), params, token_response, fault)

\* return self.cache[cache_key]
AmadeusRead(fault) ==
    LET key == AmadeusApiClient_cache_key(Val(search.params))
        read == RedisCache_getitem(redis, store, now, key, fault)
    IN  /\ search.pc = "hit"
        /\ search' = [search EXCEPT !.pc = "done", !.result = read.ret]
        /\ call' = CacheCall("search: return self.cache[cache_key]", key, None, fault,
                             store, read, FALSE, read.ret)
        /\ UNCHANGED <<slots, active_loop, pool, db_vars, messages, events, today,
                       redis, store, now>>

\* the search request, the transformation of the answer, the write to the
\* cache and the return
AmadeusUpstream(api_response, fault) ==
    LET key == AmadeusApiClient_cache_key(Val(search.params))
        transformed_response ==
            IF api_response.failed THEN Exc("RequestException")
            ELSE AmadeusApiClient_transform_response(api_response)
        set == IF transformed_response.exc # "" THEN Did(None, FALSE, store, FALSE)
               ELSE RedisCache_setitem(redis, store, now, key,
                                       transformed_response.ret, fault)
    IN  /\ search.pc = "miss"
        /\ search.requests < MaxRequests
        /\ search' = [search EXCEPT
                         !.pc = "done",
                         !.result = IF transformed_response.exc # "" THEN None
                                    ELSE Some(transformed_response.ret),
                         !.raised = transformed_response.exc # ""
                                    /\ transformed_response.exc
                                           \notin AmadeusApiClient_caught,
                         !.search_requests = @ + 1,
                         !.requests = @ + 1,
                         !.api_response = Some(api_response)]
        /\ store' = set.store
        /\ call' = CacheCall("search: requests.get", key, None,
                             IF transformed_response.exc # "" THEN "" ELSE fault,
                             store, set, FALSE, None)
        /\ UNCHANGED <<slots, active_loop, pool, db_vars, messages, events, today, redis, now>>

----------------------------------------------------------------------------
(* The data-store client (db_client.py): every operation takes a           *)
(* connection from the pool, runs its statements in one transaction and    *)
(* gives the connection back in its finally block.                         *)

\* pool.SimpleConnectionPool(minconn=1, maxconn=10), scaled down so that
\* the requests of the model can exhaust the pool
maxconn == 2

Tables == {"cities", "user_preferences", "airports"}

\* a row of user_preferences
Row(user_id, preference_key, preference_value) ==
    [user_id |-> user_id, preference_key |-> preference_key,
     preference_value |-> preference_value]

\* WHERE user_id = %s AND preference_key = %s
Matching(rows, user_id, key) ==
    {r \in rows : r.user_id = user_id /\ r.preference_key = key}

\* the database before the process starts: no tables, or the tables of
\* the migrations (models.py), not yet seeded
NewDb(tables) ==
    [tables |-> tables, user_preferences |-> {}, seeded |-> FALSE, checked_out |-> 0]

\* INSERT ... ON CONFLICT (user_id, preference_key) DO NOTHING
insert_on_conflict_nothing(rows, user_id, key, value) ==
    IF Matching(rows, user_id, key) # {} THEN rows
    ELSE rows \cup {Row(user_id, key, value)}

\* INSERT ... ON CONFLICT (user_id, preference_key) DO UPDATE SET
\* preference_value = EXCLUDED.preference_value
insert_on_conflict_update(rows, user_id, key, value) ==
    IF Matching(rows, user_id, key) # {}
    THEN {IF r \in Matching(rows, user_id, key)
          THEN [r EXCEPT !.preference_value = value] ELSE r : r \in rows}
    ELSE rows \cup {Row(user_id, key, value)}

\* SELECT preference_value ...; result = cur.fetchone();
\* return result[0] if result else None
select_preference_value(rows, user_id, key) ==
    IF Matching(rows, user_id, key) = {} THEN None
    ELSE Some((CHOOSE r \in Matching(rows, user_id, key) : TRUE).preference_value)

\* DELETE FROM user_preferences WHERE ...: the rows left and cur.rowcount
delete_from(rows, user_id, key) ==
    [rows |-> rows \ Matching(rows, user_id, key),
     rowcount |-> Cardinality(Matching(rows, user_id, key))]

\* a request's operation: where it stands, its arguments, the connection
\* it holds and what it returns
DbOp(pc, op, user_id, key, value, city_name) ==
    [pc |-> pc, op |-> op, user_id |-> user_id, key |-> key, value |-> value,
     city_name |-> city_name, conn |-> FALSE, failed |-> FALSE,
     ret_bool |-> FALSE, ret_value |-> None, ret_rows |-> <<>>, ret_names |-> <<>>]

IdleOp == DbOp("idle", "", "", "", "", "")

\* the table each operation needs, when the server looks at its statement
Needs(op) ==
    CASE op \in {"store_user_preference", "get_user_preference", "delete_user_preference"} ->
            {"user_preferences"}
      [] op = "get_airports_for_city" -> {"cities", "airports"}
      [] op = "get_all_city_names" -> {"cities"}
      [] OTHER -> {}

\* pool.getconn(): a free or a new connection, PoolError when maxconn are
\* in use, OperationalError when the server cannot be reached
getconn(d, fault) ==
    IF d.checked_out >= maxconn THEN [exc |-> "PoolError", db |-> d]
    ELSE IF fault # "" THEN [exc |-> "OperationalError", db |-> d]
    ELSE [exc |-> "", db |-> [d EXCEPT !.checked_out = @ + 1]]

\* pool.putconn(conn): the connection is rolled back when a transaction is
\* open on it and goes back to the pool
putconn(d) == [d EXCEPT !.checked_out = @ - 1]

\* self.pool.putconn(conn) as the last statement of the try block
DatabaseClient_finally_on_success(o, d) == IF o.conn /\ ~o.failed THEN putconn(d) ELSE d

\* finally: if conn: self.pool.putconn(conn)
DatabaseClient_finally(o, d) == IF o.conn THEN putconn(d) ELSE d

\* CREATE TABLE IF NOT EXISTS user_preferences (user_id ... PRIMARY KEY, ...,
\* PRIMARY KEY (user_id, preference_key)): skipped when the table exists,
\* refused by the server (two primary keys) when it does not
create_user_preferences(tables) ==
    IF "user_preferences" \in tables THEN [exc |-> "", tables |-> tables]
    ELSE [exc |-> "Error", tables |-> tables]

\* the body of initialize_schema's try block: the tables, the indexes and
\* the seed rows, committed together
DatabaseClient_initialize_schema(d, fault) ==
    LET created == create_user_preferences(d.tables \cup {"cities"})
    IN  IF fault # "" \/ created.exc # "" THEN [failed |-> TRUE, db |-> d]
        ELSE [failed |-> FALSE,
              db |-> [d EXCEPT !.tables = created.tables \cup {"airports"},
                               !.seeded = TRUE]]

\* the statement of an operation raises psycopg2.Error: the server fails
\* or a table the statement names does not exist
Raises(o, d, fault) == fault # "" \/ ~(Needs(o.op) \subseteq d.tables)

\* the body of store_user_preference's try block
DatabaseClient_store_user_preference(o, d, fault) ==
    IF Raises(o, d, fault) THEN [o |-> [o EXCEPT !.failed = TRUE, !.ret_bool = FALSE], db |-> d]
    ELSE [o |-> [o EXCEPT !.ret_bool = TRUE],
          db |-> [d EXCEPT !.user_preferences =
                        insert_on_conflict_update(@, o.user_id, o.key, o.value)]]

\* the body of get_user_preference's try block
DatabaseClient_get_user_preference(o, d, fault) ==
    IF Raises(o, d, fault) THEN [o |-> [o EXCEPT !.failed = TRUE, !.ret_value = None], db |-> d]
    ELSE [o |-> [o EXCEPT !.ret_value =
                        select_preference_value(d.user_preferences, o.user_id, o.key)],
          db |-> d]

\* the body of delete_user_preference's try block
DatabaseClient_delete_user_preference(o, d, fault) ==
    IF Raises(o, d, fault) THEN [o |-> [o EXCEPT !.failed = TRUE, !.ret_bool = FALSE], db |-> d]
    ELSE LET deleted == delete_from(d.user_preferences, o.user_id, o.key)
         IN  [o |-> [o EXCEPT !.ret_bool = deleted.rowcount > 0],
              db |-> [d EXCEPT !.user_preferences = deleted.rows]]

\* the body of an operation's try block after getconn()
DatabaseClient_try(o, d, fault) ==
    CASE o.op = "initialize_schema" ->
            LET done == DatabaseClient_initialize_schema(d, fault)
            IN  [o |-> [o EXCEPT !.failed = done.failed], db |-> done.db]
      [] o.op = "store_user_preference" -> DatabaseClient_store_user_preference(o, d, fault)
      [] o.op = "get_user_preference" -> DatabaseClient_get_user_preference(o, d, fault)
      [] o.op = "delete_user_preference" -> DatabaseClient_delete_user_preference(o, d, fault)
      [] o.op = "get_airports_for_city" ->
            [o |-> [o EXCEPT !.failed = Raises(o, d, fault),
                             !.ret_rows = get_airports_for_city(
                                    o.city_name, ~Raises(o, d, fault) /\ d.seeded)],
             db |-> d]
      [] OTHER ->
            [o |-> [o EXCEPT !.failed = Raises(o, d, fault),
                             !.ret_names = get_all_city_names(
                                    ~Raises(o, d, fault) /\ d.seeded)],
             db |-> d]

\* the data store is not in use
NoStore ==
    /\ db = NewDb({})
    /\ ops = <<>>

\* an operation is called: without a pool it returns at once; getconn()
\* gives a connection, or raises and the operation returns its failure
DbCall(w, op, user_id, key, value, city_name, fault) ==
    LET o == DbOp("acquired", op, user_id, key, value, city_name)
        got == getconn(db, fault)
    IN  /\ ops[w].pc \in {"idle", "done"}
        /\ IF ~pool
           THEN /\ ops' = [ops EXCEPT ![w] = [o EXCEPT !.pc = "done"]]
                /\ db' = db
           ELSE IF got.exc # ""
           THEN /\ ops' = [ops EXCEPT ![w] = [o EXCEPT !.pc = "done", !.failed = TRUE]]
                /\ db' = db
           ELSE /\ ops' = [ops EXCEPT ![w] = [o EXCEPT !.conn = TRUE]]
                /\ db' = got.db
        /\ UNCHANGED <<slots, active_loop, pool, messages, events, call, today, cache_vars>>

\* the statements of the operation and its commit, or the error that ends
\* the try block before anything is committed
DbWork(w, fault) ==
    LET tried == DatabaseClient_try(ops[w], db, fault)
    IN  /\ ops[w].pc = "acquired"
        /\ ops' = [ops EXCEPT ![w] = [tried.o EXCEPT !.pc = "finally"]]
        /\ db' = tried.db
        /\ UNCHANGED <<slots, active_loop, pool, messages, events, call, today, cache_vars>>

\* the finally block, and the operation returns
DbReturn(w) ==
    /\ ops[w].pc = "finally"
    /\ db' = DatabaseClient_finally(ops[w], db)
    /\ ops' = [ops EXCEPT ![w] = [@ EXCEPT !.pc = "done", !.conn = FALSE]]
    /\ UNCHANGED <<slots, active_loop, pool, messages, events, call, today, cache_vars>>

\* a call to the database is answered, or raises psycopg2.Error
DbFaults == {"", "Error"}

\* tracker.sender_id of the conversation that searches
sender_id == "u1"

\* one run of the search against the data store: get_user_preference is
\* called for the keys the run asks for, each call answered or failing
SearchWithPreferences(fault_seat, fault_airline, flight_options) ==
    LET multi == slots["booking_trip_type"] = Some("multi-city")
        get(key, fault) ==
            DatabaseClient_get_user_preference(
                DbOp("acquired", "get_user_preference", sender_id, key, "", ""),
                db, fault).o.ret_value
        preferences == ActionSearchFlights_preferences(
                            slots, pool, get("seat_preference", fault_seat),
                            get("preferred_airline", fault_airline))
        options_read == IF multi THEN None ELSE flight_options
    IN  Run("action_search_flights",
            [seat_pref |-> preferences.seat_pref,
             saved_airline |-> IF preferences.saved THEN preferences.preferred_airline
                               ELSE None,
             flight_options |-> options_read,
             faults |-> <<fault_seat, fault_airline>>,
             reads |-> IF multi THEN <<>> ELSE preferences.reads,
             search |-> IF multi THEN None
                        ELSE Some(ActionSearchFlights_search(slots, preferences))],
            <<>>, <<>>, slots,
            ActionSearchFlights_run(slots, pool, preferences.seat_pref,
                IF preferences.saved THEN preferences.preferred_airline ELSE None,
                options_read))

----------------------------------------------------------------------------
(* The flight form's field sequence: trip type, leg loop flag, passengers. *)

NoCall ==
    [op |-> "", value |-> <<>>, airports |-> <<>>, all_cities |-> <<>>,
     raised |-> FALSE, on |-> FirstDay]

FieldCorrections ==
    {<<Entity("booking_trip_type", t, "")>> : t \in TripTypeAnswers}
    \cup {<<Entity("number_of_passengers", n, "")>> : n \in PassengerAnswers}
    \cup {<<Entity("booking_trip_type", t, ""), Entity("number_of_passengers", n, "")>> :
            t \in TripTypeAnswers, n \in PassengerAnswers}

InitForm ==
    /\ slots = AllNone
    /\ active_loop = Some(FlightForm)
    /\ pool = TRUE
    /\ messages = <<>>
    /\ events = <<>>
    /\ call = NoCall
    /\ today = FirstDay
    /\ NoSearch
    /\ NoStore

NextForm ==
    \/ \E v \in TripTypeAnswers : ValidateBookingTripType(v)
    \/ \E v \in BOOLEAN : ValidateAddMoreDestinations(v)
    \/ \E v \in PassengerAnswers : ValidateNumberOfPassengers(v)
    \/ \E es \in FieldCorrections : HandleCorrection(es)

SpecForm == InitForm /\ [][NextForm]_vars

----------------------------------------------------------------------------
(* The optional fields at the end of the flight form: the host asks for    *)
(* the first unfilled slot of required_slots and validates the answer.     *)

\* the slot the form asks for next: the first slot of required_slots that
\* holds no value, None when every required slot holds one
next_slot_to_request(tracker) ==
    LET required == required_slots(tracker)
        unfilled == {i \in DOMAIN required : get_slot(tracker, required[i]) = None}
    IN  IF unfilled = {} THEN None
        ELSE Some(required[CHOOSE i \in unfilled : \A j \in unfilled : i <= j])

\* the form asks for slot_name this turn
Asking(slot_name) ==
    /\ Validating(slot_name)
    /\ next_slot_to_request(slots) = Some(slot_name)

Intents == {"inform", "deny"}

AirlineAnswers == {None, Some("AwesomeAirlines"), Some("FlyHigh"), Some("Lufthansa")}

NumberAnswers == {None, Some("AA12345678"), Some("F-1234567"), Some("12345")}

ValidatePreferredAirline(v, intent) ==
    /\ Asking("preferred_airline")
    /\ FormRun("validate_preferred_airline", <<v, intent>>, <<>>, <<>>,
               validate_preferred_airline(v, intent, slots))

ValidateFrequentFlyerNumber(v, intent) ==
    /\ Asking("frequent_flyer_number")
    /\ FormRun("validate_frequent_flyer_number", <<v, intent>>, <<>>, <<>>,
               validate_frequent_flyer_number(v, intent, slots))

\* the bookings whose fields before the optional ones are filled
InitOptional ==
    /\ \E t \in {"one-way", "round trip"}, n \in {1, 5}, c \in {"Paris", "Tokyo"} :
            slots = [AllNone EXCEPT
                        !["booking_trip_type"] = Some(t),
                        !["departure_city"] = Some("London"),
                        !["departure_city_iata"] = Some("LHR"),
                        !["destination_city"] = Some(c),
                        !["destination_city_iata"] = Some(IF c = "Paris" THEN "CDG" ELSE "HND"),
                        !["departure_date"] = Some(strftime(FirstDay + 1)),
                        !["return_date"] =
                            IF t = "round trip" THEN Some(strftime(FirstDay + 2)) ELSE None,
                        !["number_of_passengers"] = Some(n),
                        !["travel_class"] = IF n > 4 THEN Some("business") ELSE None]
    /\ active_loop = Some(FlightForm)
    /\ pool = TRUE
    /\ messages = <<>>
    /\ events = <<>>
    /\ call = NoCall
    /\ today = FirstDay
    /\ NoSearch
    /\ NoStore

NextOptional ==
    \/ \E v \in AirlineAnswers, intent \in Intents : ValidatePreferredAirline(v, intent)
    \/ \E v \in NumberAnswers, intent \in Intents : ValidateFrequentFlyerNumber(v, intent)

SpecOptional == InitOptional /\ [][NextOptional]_vars

----------------------------------------------------------------------------
(* A single-destination booking (one-way or round trip): the city fields,  *)
(* their corrections, the two ambiguity prompts and the cross-sell.        *)

\* the tracker right after the trip type was answered with t
AfterTripType(t) == ApplyDict(AllNone, validate_booking_trip_type(t, AllNone).res)

CityCorrections ==
    {<<Entity("city", c, r)>> : c \in TypedCities, r \in {"departure", "destination"}}

InitCity ==
    /\ \E t \in {"One-way", "Round trip"} : slots = AfterTripType(t)
    /\ active_loop = Some(FlightForm)
    /\ pool \in BOOLEAN
    /\ messages = <<>>
    /\ events = <<>>
    /\ call = NoCall
    /\ today = FirstDay
    /\ NoSearch
    /\ NoStore

NextCity ==
    \/ \E v \in TypedCities : ValidateDepartureCity(v)
    \/ \E v \in TypedCities : ValidateDestinationCity(v)
    \/ \E es \in CityCorrections : HandleCorrection(es)
    \/ \E sel \in {None} \cup {Some(c) : c \in AirportCodes} : SetAirportFromClarification(sel)
    \/ \E intent \in {"affirm", "deny"} : HandleCitySuggestion(intent)
    \/ \E city \in {None} \cup {Some(c) : c \in TypedCities} :
            OfferFlightToDestination(city)

SpecCity == InitCity /\ [][NextCity]_vars

----------------------------------------------------------------------------
(* The answer to a typo suggestion, with the flight form active or after   *)
(* the host has left it.                                                   *)

\* the tracker after trip type t and a departure city typed as v
AfterDepartureCity(t, v) ==
    ApplyDict(AfterTripType(t),
              validate_departure_city(v, AfterTripType(t),
                                      get_airports_for_city(v, TRUE),
                                      get_all_city_names(TRUE)).res)

SuggestionIntents == {"affirm", "deny", "inform"}

InitSuggestion ==
    /\ \E t \in {"One-way", "Round trip"} :
            slots \in {AfterTripType(t)} \cup {AfterDepartureCity(t, v) : v \in TypedCities}
    /\ active_loop \in {None, Some(FlightForm)}
    /\ pool = TRUE
    /\ messages = <<>>
    /\ events = <<>>
    /\ call = NoCall
    /\ today = FirstDay
    /\ NoSearch
    /\ NoStore

NextSuggestion ==
    \/ \E v \in TypedCities : ValidateDepartureCity(v)
    \/ \E v \in TypedCities : ValidateDestinationCity(v)
    \/ \E sel \in {None} \cup {Some(c) : c \in AirportCodes} : SetAirportFromClarification(sel)
    \/ \E intent \in SuggestionIntents : HandleCitySuggestion(intent)

SpecSuggestion == InitSuggestion /\ [][NextSuggestion]_vars

----------------------------------------------------------------------------
(* A multi-city booking: the leg loop, leg corrections and the prompts.    *)

\* where a multi-city trip starts
TypedOrigins == {"Paris", "Tokyo"}

\* the city a leg is corrected to
CorrectedLegs == {"Paris", "Tokyo", "London"}

LegCorrections ==
    {<<Entity("city", c, "destination")>> : c \in CorrectedLegs}
    \cup {<<Entity("city", c, "destination"), Entity("ordinal", o, "")>> :
            c \in CorrectedLegs, o \in OrdinalWords}

InitMulti ==
    /\ slots = AfterTripType("Multi-city")
    /\ active_loop = Some(FlightForm)
    /\ pool = TRUE
    /\ messages = <<>>
    /\ events = <<>>
    /\ call = NoCall
    /\ today = FirstDay
    /\ NoSearch
    /\ NoStore

NextMulti ==
    \/ \E v \in TypedOrigins : ValidateDepartureCity(v)
    \/ \E v \in TypedLegs : ValidateNextDestination(v)
    \/ \E v \in BOOLEAN : ValidateAddMoreDestinations(v)
    \/ \E es \in LegCorrections : HandleCorrection(es)
    \/ \E sel \in {None} \cup {Some(c) : c \in AirportCodes} : SetAirportFromClarification(sel)
    \/ \E intent \in {"affirm", "deny"} : HandleCitySuggestion(intent)

SpecMulti == InitMulti /\ [][NextMulti]_vars

\* The legs of a booking whose trip type is chosen, and chosen again, while
\* legs are added and corrected.
TripTypeCorrections == {<<Entity("booking_trip_type", t, "")>> : t \in TripTypeAnswers}

NextLegs ==
    \/ \E v \in TripTypeAnswers : ValidateBookingTripType(v)
    \/ \E v \in TypedLegs : ValidateNextDestination(v)
    \/ \E es \in LegCorrections \cup TripTypeCorrections : HandleCorrection(es)

SpecLegs == InitForm /\ [][NextLegs]_vars

----------------------------------------------------------------------------
(* The date fields of the three forms, their corrections, and the clock.   *)

\* the dates the user types: yesterday, today, tomorrow, a written date
\* long past, a written date beyond the last day, text that is no date
TypedDates ==
    {Phrase(0 - 1), Phrase(0), Phrase(1), Written(FirstDay - 1), Written(MaxDay + 1), NoDate}

DateCorrections ==
    {<<Entity(n, v, "")>> : n \in {"departure_date", "return_date"}, v \in TypedDates}

InitDates ==
    /\ slots = AfterTripType("Round trip")
    /\ active_loop \in {Some(FlightForm), Some(HotelForm), Some(CarForm)}
    /\ pool = TRUE
    /\ messages = <<>>
    /\ events = <<>>
    /\ call = NoCall
    /\ today = FirstDay
    /\ NoSearch
    /\ NoStore

NextDates ==
    \/ \E v \in TypedDates : ValidateDepartureDate(v)
    \/ \E v \in TypedDates : ValidateReturnDate(v)
    \/ \E v \in TypedDates : ValidateCheckInDate(v)
    \/ \E v \in TypedDates : ValidateCheckOutDate(v)
    \/ \E v \in TypedDates : ValidatePickupDate(v)
    \/ \E v \in TypedDates : ValidateDropoffDate(v)
    \/ \E es \in DateCorrections : active_loop = Some(FlightForm) /\ HandleCorrection(es)
    \/ DayPasses
    \/ AskConfirmCancellation
    \/ CancelBooking

SpecDates == InitDates /\ [][NextDates]_vars

----------------------------------------------------------------------------
(* required_slots as a function of the tracker: the tracker is drawn from  *)
(* the values the three slots it reads can hold, and one step applies it.  *)

TripTypes == {"one-way", "round trip", "multi-city"}

\* the largest passenger count of the drawn trackers
MaxPassengers == 6

InitSlots ==
    /\ \E t \in {None} \cup {Some(x) : x \in TripTypes},
          a \in {None, Some(TRUE), Some(FALSE)},
          n \in {None} \cup {Some(k) : k \in 1..MaxPassengers} :
            slots = [AllNone EXCEPT !["booking_trip_type"] = t,
                                    !["add_more_destinations"] = a,
                                    !["number_of_passengers"] = n]
    /\ active_loop = Some(FlightForm)
    /\ pool = TRUE
    /\ messages = <<>>
    /\ events = <<>>
    /\ call = NoCall
    /\ today = FirstDay
    /\ NoSearch
    /\ NoStore

RequiredSlots ==
    /\ call = NoCall
    /\ call' = CallOf("required_slots", required_slots(slots), <<>>, <<>>, FALSE)
    /\ UNCHANGED <<slots, active_loop, pool, db_vars, messages, events, today, cache_vars>>

NextSlots == RequiredSlots

SpecSlots == InitSlots /\ [][NextSlots]_vars

----------------------------------------------------------------------------
(* The flight search: the tracker is drawn from the bookings a completed   *)
(* form leaves, and each step is one run of the search.                    *)

\* the offers a client returns, in the shape every client builds
Offers ==
    {[airline |-> "AwesomeAirlines", time |-> "08:00", price |-> 350, flight_id |-> "AA123"],
     [airline |-> "FlyHigh", time |-> "11:30", price |-> 320, flight_id |-> "FH456"]}

\* the lists of at most n offers
OfferLists(n) == UNION {[1..k -> Offers] : k \in 0..n}

\* what search returns: None, or a list of at most MaxOffers offers
SearchResults == {None} \cup {Some(l) : l \in OfferLists(MaxOffers)}

InitSearch ==
    /\ \E t \in TripTypes, r \in {None, Some(strftime(MaxDay))},
          a \in {None, Some("Delta")} :
            slots = [AllNone EXCEPT
                       !["booking_trip_type"] = Some(t),
                       !["departure_city"] = Some("Paris"),
                       !["departure_city_iata"] = Some("CDG"),
                       !["destination_city"] =
                           IF t = "multi-city" THEN None ELSE Some("Tokyo"),
                       !["destination_city_iata"] =
                           IF t = "multi-city" THEN None ELSE Some("HND"),
                       !["destinations"] =
                           IF t = "multi-city" THEN Some(<<"Tokyo">>) ELSE None,
                       !["destinations_iata"] =
                           IF t = "multi-city" THEN Some(<<"HND">>) ELSE None,
                       !["add_more_destinations"] =
                           IF t = "multi-city" THEN Some(FALSE) ELSE None,
                       !["departure_date"] = Some(strftime(FirstDay)),
                       !["return_date"] = IF t = "round trip" THEN r ELSE None,
                       !["number_of_passengers"] = Some(2),
                       !["preferred_airline"] = a]
    /\ active_loop = None
    /\ pool \in BOOLEAN
    /\ messages = <<>>
    /\ events = <<>>
    /\ call = NoCall
    /\ today = FirstDay
    /\ NoSearch
    /\ NoStore

NextSearch ==
    \E seat_pref \in {None, Some("window")}, saved_airline \in {None, Some("KLM")},
       flight_options \in SearchResults :
        SearchFlights(seat_pref, saved_airline, flight_options)

SpecSearch == InitSearch /\ [][NextSearch]_vars

----------------------------------------------------------------------------
(* The flight search and the saved preferences: the bookings of the search *)
(* above, against a data store that holds preferences of two users.        *)

\* the preference tables the store may hold: for each user and key, no
\* row or one row
PreferenceTables ==
    {{Row(sender_id, "seat_preference", v) : v \in seat}
        \cup {Row(sender_id, "preferred_airline", v) : v \in airline}
        \cup {Row("u2", "preferred_airline", "Iberia"), Row("u2", "seat_preference", "aisle")} :
        seat \in {{}, {"window"}}, airline \in {{}, {"KLM"}}}

InitPreferences ==
    /\ \E t \in TripTypes, r \in {None, Some(strftime(MaxDay))},
          a \in {None, Some("Delta")} :
            slots = [AllNone EXCEPT
                       !["booking_trip_type"] = Some(t),
                       !["departure_city"] = Some("Paris"),
                       !["departure_city_iata"] = Some("CDG"),
                       !["destination_city"] =
                           IF t = "multi-city" THEN None ELSE Some("Tokyo"),
                       !["destination_city_iata"] =
                           IF t = "multi-city" THEN None ELSE Some("HND"),
                       !["destinations"] =
                           IF t = "multi-city" THEN Some(<<"Tokyo">>) ELSE None,
                       !["destinations_iata"] =
                           IF t = "multi-city" THEN Some(<<"HND">>) ELSE None,
                       !["add_more_destinations"] =
                           IF t = "multi-city" THEN Some(FALSE) ELSE None,
                       !["departure_date"] = Some(strftime(FirstDay)),
                       !["return_date"] = IF t = "round trip" THEN r ELSE None,
                       !["number_of_passengers"] = Some(2),
                       !["preferred_airline"] = a]
    /\ active_loop = None
    /\ pool \in BOOLEAN
    /\ messages = <<>>
    /\ events = <<>>
    /\ call = NoCall
    /\ today = FirstDay
    /\ NoSearch
    /\ \E rows \in PreferenceTables :
            db = [NewDb(Tables) EXCEPT !.user_preferences = rows, !.seeded = TRUE]
    /\ ops = <<>>

NextPreferences ==
    \E fault_seat \in DbFaults, fault_airline \in DbFaults, flight_options \in SearchResults :
        SearchWithPreferences(fault_seat, fault_airline, flight_options)

SpecPreferences == InitPreferences /\ [][NextPreferences]_vars

\* A round-trip booking with its cities and departure date collected, whose
\* trip type may still change before the review and the search.
ChangedTripTypes == {"One-way", "Round trip"}

ChangedDates == {Phrase(1), NoDate}

InitTripChange ==
    /\ slots = [AllNone EXCEPT
                   !["booking_trip_type"] = Some("round trip"),
                   !["departure_city"] = Some("Paris"),
                   !["departure_city_iata"] = Some("CDG"),
                   !["destination_city"] = Some("Tokyo"),
                   !["destination_city_iata"] = Some("HND"),
                   !["departure_date"] = Some(strftime(FirstDay))]
    /\ active_loop = Some(FlightForm)
    /\ pool = TRUE
    /\ messages = <<>>
    /\ events = <<>>
    /\ call = NoCall
    /\ today = FirstDay
    /\ NoSearch
    /\ \E rows \in PreferenceTables :
            db = [NewDb(Tables) EXCEPT !.user_preferences = rows, !.seeded = TRUE]
    /\ ops = <<>>

NextTripChange ==
    \/ \E v \in ChangedTripTypes : ValidateBookingTripType(v)
    \/ \E v \in ChangedDates : ValidateReturnDate(v)
    \/ \E v \in PassengerAnswers : ValidateNumberOfPassengers(v)
    \/ \E flight_options \in SearchResults : SearchWithPreferences("", "", flight_options)
    \/ ReviewAndConfirm

SpecTripChange == InitTripChange /\ [][NextTripChange]_vars

----------------------------------------------------------------------------
(* The cache on its own: it is constructed, then its three operations are  *)
(* called while the store answers or raises and time passes.               *)

InitCache ==
    /\ NoStore
    /\ slots = AllNone
    /\ active_loop = None
    /\ pool = TRUE
    /\ messages = <<>>
    /\ events = <<>>
    /\ call = NoCall
    /\ today = FirstDay
    /\ \E ping \in {"", "ConnectionError", "TimeoutError"} : redis = RedisCache_init(ping)
    /\ store = EmptyStore
    /\ now = 0
    /\ search = Idle(FALSE)

NextCache ==
    \/ \E key \in StoreKeys, fault \in Faults : CacheContains(key, fault)
    \/ \E key \in StoreKeys, fault \in Faults : CacheGet(key, fault)
    \/ \E key \in StoreKeys, value \in CachedValues, fault \in Faults :
            CacheSet(key, value, fault)
    \/ Tick

SpecCache == InitCache /\ [][NextCache]_vars

----------------------------------------------------------------------------
(* A caching provider client: searches one after the other while the store *)
(* answers or raises, entries expire and get damaged, and the provider     *)
(* answers or fails.                                                       *)

InitClient ==
    /\ NoStore
    /\ slots = AllNone
    /\ active_loop = None
    /\ pool = TRUE
    /\ messages = <<>>
    /\ events = <<>>
    /\ call = NoCall
    /\ today = FirstDay
    /\ redis \in {None, Some("redis")}
    /\ store = EmptyStore
    /\ now = 0
    /\ \E api_key \in BOOLEAN : search = Idle(api_key)

NextClient ==
    \/ \E params \in SearchParams, fault \in Faults : SearchBegin(params, fault)
    \/ \E fault \in Faults : SearchRead(fault)
    \/ \E api_response \in Upstream, fault \in Faults : SearchUpstream(api_response, fault)
    \/ Tick
    \/ \E key \in StoreKeys : Corrupt(key)

SpecClient == InitClient /\ [][NextClient]_vars

----------------------------------------------------------------------------
(* An OAuth provider client: searches one after the other while the token  *)
(* endpoint and the search endpoint answer, fail or answer with fields     *)
(* missing, the store answers or raises, and time passes.                  *)

InitOAuth ==
    /\ NoStore
    /\ slots = AllNone
    /\ active_loop = None
    /\ pool = TRUE
    /\ messages = <<>>
    /\ events = <<>>
    /\ call = NoCall
    /\ today = FirstDay
    /\ redis = Some("redis")
    /\ store = EmptyStore
    /\ now = 0
    /\ \E credentials \in {<<TRUE, TRUE>>, <<TRUE, FALSE>>, <<FALSE, FALSE>>} :
            search = IdleOAuth(credentials[1], credentials[2])

NextOAuth ==
    \/ \E params \in FlightParams, token_response \in TokenResponses, fault \in Faults :
            AmadeusBegin(params, token_response, fault)
    \/ \E fault \in Faults : AmadeusRead(fault)
    \/ \E api_response \in ApiResponses, fault \in Faults :
            AmadeusUpstream(api_response, fault)
    \/ Tick

SpecOAuth == InitOAuth /\ [][NextOAuth]_vars

\* The car form asking for the pickup location: an exact name in two
\* spellings, a typo scoring 91, a typo scoring 80, an unknown place and an
\* empty answer; with the data store and without.
TypedLocations == {"Paris", "paris", "Pariss", "Tokio", "Atlantis", ""}

InitPickup ==
    /\ slots = AllNone
    /\ active_loop = Some(CarForm)
    /\ pool \in BOOLEAN
    /\ messages = <<>>
    /\ events = <<>>
    /\ call = NoCall
    /\ today = FirstDay
    /\ NoSearch
    /\ NoStore

NextPickup ==
    \/ \E v \in TypedLocations : ValidatePickupLocation(v)
    \/ \E intent \in {"affirm", "deny"} : HandleCitySuggestion(intent)
    \/ \E v \in {Phrase(1), Phrase(2)} : ValidatePickupDate(v)

SpecPickup == InitPickup /\ [][NextPickup]_vars

\* A booking whose trip type may change between single destination and
\* multi-city before it is confirmed.
ConfirmedTripTypes == {"One-way", "Multi-city"}

ConfirmedCities == {"Paris", "Tokyo"}

NextConfirm ==
    \/ \E v \in ConfirmedTripTypes : ValidateBookingTripType(v)
    \/ \E v \in ConfirmedCities : ValidateDestinationCity(v)
    \/ \E v \in ConfirmedCities : ValidateNextDestination(v)
    \/ \E v \in BOOLEAN : ValidateAddMoreDestinations(v)
    \/ ConfirmBooking

SpecConfirm == InitForm /\ [][NextConfirm]_vars

\* The flight search action run again and again in one process, each run on
\* the client get_api_client returns, over one shared cache.
NextInvocations ==
    \/ \E params \in FlightParams, token_response \in TokenResponses, fault \in Faults :
            ActionSearchFlights_amadeus(params, token_response, fault)
    \/ \E fault \in Faults : AmadeusRead(fault)
    \/ \E api_response \in ApiResponses, fault \in Faults :
            AmadeusUpstream(api_response, fault)
    \/ Tick

SpecInvocations == InitOAuth /\ [][NextInvocations]_vars

----------------------------------------------------------------------------
(* The data store used by one request after the other: the operations are  *)
(* called with and without a pool, with and without the tables, and the    *)
(* server answers or raises.                                               *)

Users == {"u1", "u2"}

PreferenceKeys == {"seat_preference", "preferred_airline"}

PreferenceValues == {"window", "aisle"}

CityNames == {"London", "Oslo"}

\* the calls of the six operations with the arguments above
DbCalls(users, keys, values, cities) ==
    {DbOp("idle", "initialize_schema", "", "", "", ""),
     DbOp("idle", "get_all_city_names", "", "", "", "")}
    \cup {DbOp("idle", "get_airports_for_city", "", "", "", c) : c \in cities}
    \cup {DbOp("idle", "store_user_preference", u, k, v, "") :
                u \in users, k \in keys, v \in values}
    \cup {DbOp("idle", op, u, k, "", "") :
                op \in {"get_user_preference", "delete_user_preference"},
                u \in users, k \in keys}

InitDb(workers) ==
    /\ slots = AllNone
    /\ active_loop = None
    /\ pool \in BOOLEAN
    /\ messages = <<>>
    /\ events = <<>>
    /\ call = NoCall
    /\ today = FirstDay
    /\ NoSearch
    /\ db \in {NewDb({}), NewDb(Tables)}
    /\ ops = [w \in workers |-> IdleOp]

NextDb(calls) ==
    \/ \E w \in DOMAIN ops, c \in calls, fault \in DbFaults :
            DbCall(w, c.op, c.user_id, c.key, c.value, c.city_name, fault)
    \/ \E w \in DOMAIN ops, fault \in DbFaults : DbWork(w, fault)
    \/ \E w \in DOMAIN ops : DbReturn(w)

InitStore == InitDb({"w1"})

NextStore == NextDb(DbCalls(Users, PreferenceKeys, PreferenceValues, CityNames))

SpecStore == InitStore /\ [][NextStore]_vars

----------------------------------------------------------------------------
(* The data store used by requests of different conversations at once:     *)
(* more requests than the pool has connections, their steps interleaved.   *)

InitPool == InitDb({"w1", "w2", "w3"})

NextPool == NextDb(DbCalls({"u1"}, {"seat_preference"}, {"window"}, {"London"}))

SpecPool == InitPool /\ [][NextPool]_vars

----------------------------------------------------------------------------
(* Claims about required_slots.                                            *)

TripType == slots["booking_trip_type"]

Passengers == slots["number_of_passengers"]

AtMostFour == Passengers = None \/ Val(Passengers) <= 4

OneWaySlots ==
    <<"booking_trip_type", "departure_city", "destination_city", "departure_date",
      "number_of_passengers", "preferred_airline", "frequent_flyer_number">>

RoundTripSlots ==
    <<"booking_trip_type", "departure_city", "destination_city", "departure_date",
      "return_date", "number_of_passengers", "preferred_airline",
      "frequent_flyer_number">>

\* the position of slot name n in the list r, 0 when it is absent
PosIn(r, n) == IF n \in Range(r) THEN CHOOSE i \in DOMAIN r : r[i] = n ELSE 0

\* C2: with booking_trip_type unset required_slots returns exactly
\* [booking_trip_type]; with one-way and at most 4 passengers (or none given)
\* exactly the seven one-way slots; with round trip (same passenger
\* condition) the same list with return_date right after departure_date.
C2_RequiredSlotsBase ==
    call.op = "required_slots" =>
        /\ TripType = None => call.value = <<"booking_trip_type">>
        /\ TripType = Some("one-way") /\ AtMostFour => call.value = OneWaySlots
        /\ TripType = Some("round trip") /\ AtMostFour => call.value = RoundTripSlots

C2_Witness ==
    /\ call.op = "required_slots"
    /\ TripType = Some("round trip")
    /\ Passengers = Some(4)
    /\ PosIn(call.value, "return_date") = PosIn(call.value, "departure_date") + 1

\* C3: for multi-city the pair next_destination, add_more_destinations is in
\* required_slots, in that order right after departure_city and right before
\* departure_date, exactly when add_more_destinations is not False (True or
\* unset); for one-way and round trip the pair never appears.
C3_LegLoopPair ==
    call.op = "required_slots" =>
        /\ TripType = Some("multi-city") /\ slots["add_more_destinations"] # Some(FALSE) =>
              /\ Len(call.value) >= 5
              /\ SubSeq(call.value, 2, 5) =
                    <<"departure_city", "next_destination", "add_more_destinations",
                      "departure_date">>
        /\ TripType = Some("multi-city") /\ slots["add_more_destinations"] = Some(FALSE) =>
              /\ Range(call.value) \cap {"next_destination", "add_more_destinations"} = {}
              /\ SubSeq(call.value, 2, 3) = <<"departure_city", "departure_date">>
        /\ TripType \in {Some("one-way"), Some("round trip")} =>
              Range(call.value) \cap {"next_destination", "add_more_destinations"} = {}

C3_Witness ==
    /\ call.op = "required_slots"
    /\ TripType = Some("multi-city")
    /\ slots["add_more_destinations"] = None
    /\ PosIn(call.value, "next_destination") = 3

C5_MultiCityListsOfTests ==
    /\ TripType = Some("multi-city") /\ slots["add_more_destinations"] = Some(TRUE) =>
          required_slots(slots) =
              <<"booking_trip_type", "departure_city", "next_destination",
                "add_more_destinations", "departure_date", "number_of_passengers",
                "preferred_airline", "frequent_flyer_number">>
    /\ TripType = Some("multi-city") /\ slots["add_more_destinations"] = Some(FALSE) =>
          required_slots(slots) =
              <<"booking_trip_type", "departure_city", "departure_date",
                "number_of_passengers", "preferred_airline", "frequent_flyer_number">>

----------------------------------------------------------------------------
(* Claims about the city slots.                                            *)

DepartureCity == slots["departure_city"]

DestinationCity == slots["destination_city"]

Destinations == ListOf(slots["destinations"])

\* C6: whenever departure_city and destination_city are both set they are
\* different cities, compared case-insensitively.
C6_DepartureDiffersFromDestination ==
    IsSet(DepartureCity) /\ IsSet(DestinationCity) =>
        Lower(Val(DepartureCity)) # Lower(Val(DestinationCity))

\* no leg of `legs` repeats the one before it, the first not the origin
LegsDistinct(origin, legs) ==
    /\ \A i \in 2..Len(legs) : Lower(legs[i]) # Lower(legs[i - 1])
    /\ legs # <<>> /\ IsSet(origin) => Lower(legs[1]) # Lower(Val(origin))

\* C7: in a multi-city booking no element of destinations equals
\* (case-insensitively) the element right before it, and the first element
\* differs from departure_city: every next-destination validation,
\* typo-suggestion response and leg correction that starts from such a state
\* ends in such a state.
C7_NoLegRepeatsThePreviousOne ==
    [][(/\ LegsDistinct(DepartureCity, Destinations)
        /\ call'.op \in {"validate_next_destination", "action_handle_city_suggestion",
                         "action_handle_correction"})
       => LegsDistinct(DepartureCity', ListOf(slots'["destinations"]))]_vars

\* C8: each of departure_city, destination_city and next_destination is set
\* if and only if its paired <slot>_iata slot is set.
C8_CityAndIataPaired ==
    \A s \in CitySlots : IsSet(slots[s]) <=> IsSet(slots[IataOf(s)])

\* the slot-assignment events of the last run
SlotEvents == SelectSeq(events, LAMBDA e : e.event = "slot")

SameCityText == Text("Departure and destination cities cannot be the same")

\* the last run was city validation (_validate_city) of slot s
CityValidationOf(s) ==
    \/ s = "departure_city" /\ call.op = "validate_departure_city"
    \/ s = "destination_city" /\ call.op = "validate_destination_city"
         /\ messages # <<SameCityText>>
    \/ s = "destination_city" /\ call.op = "action_offer_flight_to_destination"
         /\ IsSet(call.value)

\* the city name that run validated
TypedCity == IF call.op = "action_offer_flight_to_destination" THEN Val(call.value)
             ELSE call.value

\* C9: city validation of a city with n >= 1 airports on file.  n = 1: the
\* city is accepted as typed, the paired IATA slot gets that airport's code,
\* no message is sent and no other slot is assigned.  n > 1: the slot and its
\* IATA slot are cleared, ambiguous_city_name is staged with the typed city
\* and ambiguous_city_slot with the slot name, and exactly one message with
\* exactly n buttons is sent, the i-th carrying the i-th airport's code.
C9_CityWithAirports ==
    \A s \in {"departure_city", "destination_city"} :
        CityValidationOf(s) /\ Len(call.airports) >= 1 =>
            IF Len(call.airports) = 1
            THEN /\ SlotEvents = <<SlotSet(s, Some(TypedCity)),
                                   SlotSet(IataOf(s), Some(call.airports[1].iata))>>
                 /\ messages = <<>>
                 /\ slots[s] = Some(TypedCity)
                 /\ slots[IataOf(s)] = Some(call.airports[1].iata)
            ELSE /\ SlotEvents = <<SlotSet(s, None), SlotSet(IataOf(s), None),
                                   SlotSet("ambiguous_city_name", Some(TypedCity)),
                                   SlotSet("ambiguous_city_slot", Some(s))>>
                 /\ Len(messages) = 1
                 /\ Len(messages[1].buttons) = Len(call.airports)
                 /\ \A i \in DOMAIN call.airports :
                        /\ messages[1].buttons[i].entity = "selected_iata_code"
                        /\ messages[1].buttons[i].value = call.airports[i].iata

C9_Witness ==
    /\ CityValidationOf("destination_city")
    /\ Len(call.airports) = 2
    /\ slots["ambiguous_city_name"] = Some("London")
    /\ slots["ambiguous_city_slot"] = Some("destination_city")
    /\ Len(messages[1].buttons) = 2

UnrecognizedText == Text("I don't recognize as a valid city")

\* C10: city validation of a city with no airport on file.  If known city
\* names exist and the best fuzzy match scores strictly above 80, the slot and
\* its IATA slot are cleared, suggested_city is staged with the best match and
\* ambiguous_city_slot with the slot name, and one yes/no prompt is sent.  If
\* the score is 80 or less, or no city names are known (the data store is
\* disabled or fails), the city is rejected with the unrecognized-city
\* message, both slots are cleared and nothing is staged.
C10_CityWithoutAirports ==
    \A s \in {"departure_city", "destination_city"} :
        CityValidationOf(s) /\ call.airports = <<>> =>
            IF call.all_cities # <<>> /\ extractOne(TypedCity, call.all_cities).score > 80
            THEN /\ SlotEvents =
                        <<SlotSet(s, None), SlotSet(IataOf(s), None),
                          SlotSet("suggested_city",
                                  Some(extractOne(TypedCity, call.all_cities).best_match)),
                          SlotSet("ambiguous_city_slot", Some(s))>>
                 /\ Len(messages) = 1
                 /\ messages[1].id = "utter_clarify_city_typo"
                 /\ [i \in DOMAIN messages[1].buttons |-> messages[1].buttons[i].intent]
                        = <<"affirm", "deny">>
            ELSE /\ SlotEvents = <<SlotSet(s, None), SlotSet(IataOf(s), None)>>
                 /\ messages = <<UnrecognizedText>>

C10_Witness ==
    /\ CityValidationOf("departure_city")
    /\ call.value = "Tokio"
    /\ call.airports = <<>>
    /\ call.all_cities # <<>>
    /\ extractOne("Tokio", call.all_cities).score = 80
    /\ messages = <<UnrecognizedText>>
    /\ slots["suggested_city"] = None

----------------------------------------------------------------------------
(* Claims about the flight search.                                         *)

\* the last run searched a one-way or round-trip booking
SearchedSingle ==
    /\ call.op = "action_search_flights"
    /\ TripType \in {Some("one-way"), Some("round trip")}

ApiFailure == Response("utter_api_failure")

NoFlights == Text("I'm sorry, I couldn't find any flights for that route and date.")

\* the outcome messages of the last run: the failure response, the
\* no-flights text, the offers message
OutcomeMessages ==
    SelectSeq(messages, LAMBDA m : m = ApiFailure \/ m = NoFlights
                                     \/ m.id = "Here are some flights I found:")

\* C1: a search for a one-way or round-trip booking sends exactly one outcome
\* message and returns no events.  A None result gives the utter_api_failure
\* response and no buttons; an empty list gives the "couldn't find any
\* flights" text and no buttons; a non-empty list gives one message with
\* exactly one button per offer, the i-th payload carrying the i-th offer's
\* flight_id.
C1_SearchOutcomes ==
    SearchedSingle =>
        /\ ~call.raised
        /\ events = <<>>
        /\ Len(OutcomeMessages) = 1
        /\ \A i \in DOMAIN messages :
               messages[i].buttons # <<>> => messages[i] = OutcomeMessages[1]
        /\ IF call.value.flight_options = None
           THEN OutcomeMessages = <<ApiFailure>>
           ELSE IF Val(call.value.flight_options) = <<>>
           THEN OutcomeMessages = <<NoFlights>>
           ELSE LET offers == Val(call.value.flight_options)
                    buttons == OutcomeMessages[1].buttons
                IN  /\ OutcomeMessages[1].kind = "text"
                    /\ Len(buttons) = Len(offers)
                    /\ \A i \in DOMAIN offers :
                           buttons[i] = Payload("select_flight", "flight_id",
                                                offers[i].flight_id)

\* a search of a one-way or round-trip booking found two offers
C1_Witness ==
    /\ SearchedSingle
    /\ IsSet(call.value.flight_options)
    /\ Len(Val(call.value.flight_options)) = 2
    /\ Len(messages[Len(messages)].buttons) = 2
    /\ messages[Len(messages)].buttons[2].value = "FH456"

----------------------------------------------------------------------------
(* Claims about date validation.                                           *)

StartDateSlots == {"departure_date", "check_in_date", "pickup_date"}

EndDateSlots == {"return_date", "check_out_date", "dropoff_date"}

\* the start date an end date is compared with
StartOf(slot_name) ==
    CASE slot_name = "return_date" -> "departure_date"
      [] slot_name = "check_out_date" -> "check_in_date"
      [] slot_name = "dropoff_date" -> "pickup_date"

\* the last run was the form's validation of date slot s
DateValidationOf(s) == call.op = "validate_" \o s

\* the calendar day the typed text of the last run denotes on the day of
\* that run
TypedDay == IF call.value.form = "phrase" THEN call.on + call.value.day
            ELSE call.value.day

CouldNotUnderstand == Text("I'm sorry, I couldn't understand as a date")

PastDate(s) == Text("The " \o Spaced(s) \o " can't be in the past!")

NeedStartFirst(s) == Text("I need to know the " \o Spaced(StartOf(s)) \o " first.")

MustBeAfter(s) ==
    Text("The " \o Spaced(s) \o " must be after the " \o Spaced(StartOf(s)) \o ".")

RejectionMessages(s) ==
    {CouldNotUnderstand, PastDate(s)}
        \cup (IF s \in EndDateSlots THEN {NeedStartFirst(s), MustBeAfter(s)} ELSE {})

\* C11: date validation, shared by the six date fields.  For a start date
\* (departure, check-in, pickup): text that is no date is rejected with
\* exactly one could-not-understand message; a date strictly before today is
\* rejected with exactly one past-date message, the slot being null; a date
\* equal to today or later is accepted, stored as YYYY-MM-DD, with no
\* rejection message.  An end date (return, check-out, dropoff) whose start
\* date is set goes through the same two rejections.  No run of any validator
\* or correction assigns a date slot a value before the day of that run.
C11_DateValidation ==
    /\ \A s \in StartDateSlots :
           DateValidationOf(s) =>
               IF call.value.form = "no date"
               THEN slots[s] = None /\ messages = <<CouldNotUnderstand>>
               ELSE IF TypedDay < call.on
               THEN slots[s] = None /\ messages = <<PastDate(s)>>
               ELSE /\ slots[s] = Some(strftime(TypedDay))
                    /\ \A i \in DOMAIN messages : messages[i] \notin RejectionMessages(s)
    /\ \A s \in EndDateSlots :
           DateValidationOf(s) /\ IsSet(slots[StartOf(s)]) =>
               IF call.value.form = "no date"
               THEN slots[s] = None /\ messages = <<CouldNotUnderstand>>
               ELSE IF TypedDay < call.on
               THEN slots[s] = None /\ messages = <<PastDate(s)>>
               ELSE IsSet(slots[s]) => slots[s] = Some(strftime(TypedDay)) /\ messages = <<>>
    /\ \A i \in DOMAIN events :
           events[i].event = "slot"
               /\ events[i].name \in StartDateSlots \cup EndDateSlots
               /\ IsSet(events[i].value)
           => /\ Val(events[i].value).form = "YYYY-MM-DD"
              /\ Val(events[i].value).day >= call.on

\* a departure date of "today" was accepted on the last day of the clock
C11_Witness ==
    /\ DateValidationOf("departure_date")
    /\ call.value = Phrase(0)
    /\ call.on = MaxDay
    /\ slots["departure_date"] = Some(strftime(MaxDay))

\* C12 as stated: end-date validation.  With the start date unset the end
\* date is rejected with the request for the start date, whatever was typed.
\* With the start date set, an end date on or before it is rejected with the
\* must-be-after message, the slot being null; an end date strictly after it
\* and not in the past is accepted as YYYY-MM-DD.
C12_EndDateAsStated ==
    \A s \in EndDateSlots :
        DateValidationOf(s) =>
            IF ~IsSet(slots[StartOf(s)])
            THEN slots[s] = None /\ messages = <<NeedStartFirst(s)>>
            ELSE call.value.form # "no date" =>
                 IF TypedDay <= Val(slots[StartOf(s)]).day
                 THEN slots[s] = None /\ messages = <<MustBeAfter(s)>>
                 ELSE TypedDay >= call.on => slots[s] = Some(strftime(TypedDay))

\* C12: end-date validation.  With the start date unset the end date is
\* rejected with the request for the start date, whatever was typed.  With
\* the start date set, an end date that is not in the past and is on or
\* before the start date (equal dates included) is rejected with the
\* must-be-after message; an end date in the past is rejected with the
\* past-date message, also when it is on or before the start date; the slot
\* is null in both cases.  An end date strictly after the start date and not
\* in the past is accepted as YYYY-MM-DD.
C12_EndDate ==
    \A s \in EndDateSlots :
        DateValidationOf(s) =>
            IF ~IsSet(slots[StartOf(s)])
            THEN slots[s] = None /\ messages = <<NeedStartFirst(s)>>
            ELSE call.value.form # "no date" =>
                 IF TypedDay < call.on
                 THEN slots[s] = None /\ messages = <<PastDate(s)>>
                 ELSE IF TypedDay <= Val(slots[StartOf(s)]).day
                 THEN slots[s] = None /\ messages = <<MustBeAfter(s)>>
                 ELSE slots[s] = Some(strftime(TypedDay)) /\ messages = <<>>

\* a return date equal to the departure date was rejected
C12_Witness ==
    /\ DateValidationOf("return_date")
    /\ IsSet(slots["departure_date"])
    /\ call.value.form # "no date"
    /\ TypedDay = Val(slots["departure_date"]).day
    /\ TypedDay >= call.on
    /\ messages = <<MustBeAfter("return_date")>>

----------------------------------------------------------------------------
(* Claims about the passenger count.                                       *)

AtLeastOne == Text("The number of passengers must be at least 1")

NotANumber == Text("I don't understand as a number of passengers")

\* C13: passenger-count validation accepts exactly the inputs that parse as
\* an integer >= 1 and stores that integer; an input that parses to 0 or to a
\* negative integer is rejected with the at-least-1 message, an input that is
\* no number with the distinct don't-understand message, the slot being null
\* in both cases.  In every reachable state number_of_passengers is unset or
\* an integer >= 1.
C13_PassengerCount ==
    /\ call.op = "validate_number_of_passengers" =>
           IF ParseInt(call.value) = None
           THEN Passengers = None /\ messages = <<NotANumber>>
           ELSE IF Val(ParseInt(call.value)) < 1
           THEN Passengers = None /\ messages = <<AtLeastOne>>
           ELSE /\ Passengers = ParseInt(call.value)
                /\ AtLeastOne \notin Range(messages)
                /\ NotANumber \notin Range(messages)
    /\ IsSet(Passengers) => Val(Passengers) \in Nat /\ Val(Passengers) >= 1

\* a count of zero was rejected and the slot is null
C13_Witness ==
    /\ call.op = "validate_number_of_passengers"
    /\ call.value = "0"
    /\ messages = <<AtLeastOne>>
    /\ Passengers = None

----------------------------------------------------------------------------
(* Claims about cancelling.                                                *)

\* C14: ActionCancelBooking, whatever the slots, the active form and the
\* cancellation flag were, sends the cancellation acknowledgment and returns
\* both a deactivate-form event and a reset-all-slots event; once they are
\* applied no form is active and every slot is reset.
C14_CancelAlwaysResets ==
    call.op = "action_cancel_booking" =>
        /\ messages = <<Response("utter_ok_cancelled")>>
        /\ ActiveLoop(None) \in Range(events)
        /\ AllSlotsReset \in Range(events)
        /\ active_loop = None
        /\ \A s \in SlotNames : slots[s] = None

\* a booking with a form active, a date collected and the cancellation
\* pending was cancelled
C14_Witness ==
    /\ call.op = "action_cancel_booking"
    /\ IsSet(call.value.loop)
    /\ call.value.tracker["cancellation_pending"] = Some(TRUE)
    /\ \E s \in StartDateSlots : IsSet(call.value.tracker[s])
    /\ slots = AllNone

----------------------------------------------------------------------------
(* Claims about corrections.                                               *)

\* the entities of the corrected message are one city with role destination
DestinationCorrection(all_entities) ==
    /\ Len(all_entities) = 1
    /\ all_entities[1].entity = "city"
    /\ all_entities[1].role = "destination"

\* the events assign slot_name a value that is not null
Assigned(evs, slot_name) ==
    \E i \in DOMAIN evs :
        evs[i].event = "slot" /\ evs[i].name = slot_name /\ IsSet(evs[i].value)

ReviewNext == FollowupAction("action_review_and_confirm")

\* C15: correcting the destination of a one-way or round-trip booking with
\* a city that is accepted (it has exactly one airport and is not the
\* origin) returns events that assign destination_city and
\* destination_city_iata and no other slot, then schedule
\* action_review_and_confirm; every other slot keeps its value.
C15_DestinationCorrectionFrame ==
    [][(/\ call'.op = "action_handle_correction"
        /\ DestinationCorrection(call'.value)
        /\ TripType \in {Some("one-way"), Some("round trip")}
        /\ Len(call'.airports) = 1
        /\ IsSet(DepartureCity) =>
               Lower(call'.value[1].value) # Lower(Val(DepartureCity)))
       => /\ Len(events') = 3
          /\ {events'[1].name, events'[2].name} =
                 {"destination_city", "destination_city_iata"}
          /\ events'[1].event = "slot" /\ events'[2].event = "slot"
          /\ events'[3] = ReviewNext
          /\ slots'["destination_city"] = Some(call'.value[1].value)
          /\ IsSet(slots'["destination_city_iata"])
          /\ \A s \in SlotNames \ {"destination_city", "destination_city_iata"} :
                 slots'[s] = slots[s]]_vars

\* the destination of a booking that has an origin and a destination was
\* corrected to another city
C15_Witness ==
    /\ call.op = "action_handle_correction"
    /\ DestinationCorrection(call.value)
    /\ TripType = Some("one-way")
    /\ IsSet(DepartureCity)
    /\ Assigned(events, "destination_city")
    /\ events[Len(events)] = ReviewNext

\* list `after` is list `before` with the element at position pos replaced
\* by value: same length, every other element unchanged
ReplacedAt(before, after, pos, value) ==
    /\ Len(after) = Len(before)
    /\ after[pos] = value
    /\ \A i \in DOMAIN before : i # pos => after[i] = before[i]

\* C16: correcting a multi-city destination without an ordinal, with a city
\* that is accepted (it has exactly one airport), replaces only the last
\* element of destinations and of destinations_iata, whatever the non-empty
\* list; the other elements and both lengths are unchanged, and
\* action_review_and_confirm is scheduled next.
C16_LastLegCorrection ==
    [][(/\ call'.op = "action_handle_correction"
        /\ DestinationCorrection(call'.value)
        /\ TripType = Some("multi-city")
        /\ Destinations # <<>>
        /\ Len(call'.airports) = 1)
       => /\ ReplacedAt(Destinations, ListOf(slots'["destinations"]),
                        Len(Destinations), call'.value[1].value)
          /\ ReplacedAt(ListOf(slots["destinations_iata"]),
                        ListOf(slots'["destinations_iata"]),
                        Len(Destinations), call'.airports[1].iata)
          /\ events'[Len(events')] = ReviewNext]_vars

\* the last of two legs was corrected to a city other than the first leg
C16_Witness ==
    /\ call.op = "action_handle_correction"
    /\ DestinationCorrection(call.value)
    /\ Len(Destinations) = 2
    /\ Destinations[2] = call.value[1].value
    /\ Destinations[1] # Destinations[2]
    /\ Assigned(events, "destinations")

\* the entities of the corrected message are one city with role
\* destination and one ordinal
OrdinalCorrection(all_entities) ==
    /\ Len(all_entities) = 2
    /\ DestinationCorrection(<<all_entities[1]>>)
    /\ all_entities[2].entity = "ordinal"

\* the leg (counted from 1) an ordinal word denotes in a trip of n legs, 0
\* when it denotes none
LegOf(ordinal, n) ==
    LET leg == CASE Lower(ordinal) \in {"first", "1st"} -> 1
                 [] Lower(ordinal) \in {"second", "2nd"} -> 2
                 [] Lower(ordinal) \in {"third", "3rd"} -> 3
                 [] Lower(ordinal) \in {"fourth", "4th"} -> 4
                 [] Lower(ordinal) = "last" -> n
                 [] OTHER -> 0
    IN  IF leg <= n THEN leg ELSE 0

CannotCorrect == Text("I can't correct that destination")

\* C17: correcting a multi-city destination with an ordinal and a city that
\* is accepted: when the ordinal denotes an existing leg (first to fourth
\* within the list, last for any non-empty list, one leg included) exactly
\* that leg's city and IATA code are replaced; otherwise the correction is
\* rejected with a message and no leg changes.
C17_OrdinalHonoured ==
    [][(/\ call'.op = "action_handle_correction"
        /\ OrdinalCorrection(call'.value)
        /\ TripType = Some("multi-city")
        /\ Destinations # <<>>
        /\ Len(call'.airports) = 1)
       => LET leg == LegOf(call'.value[2].value, Len(Destinations))
          IN  IF leg # 0
              THEN /\ ReplacedAt(Destinations, ListOf(slots'["destinations"]),
                                 leg, call'.value[1].value)
                   /\ ReplacedAt(ListOf(slots["destinations_iata"]),
                                 ListOf(slots'["destinations_iata"]),
                                 leg, call'.airports[1].iata)
              ELSE /\ slots'["destinations"] = slots["destinations"]
                   /\ slots'["destinations_iata"] = slots["destinations_iata"]
                   /\ CannotCorrect \in Range(messages')]_vars

----------------------------------------------------------------------------
(* Claims about the result cache.                                          *)

\* the client's search found its key in the cache and now returns
ReadStep == search.pc = "hit" /\ search'.pc = "done"

\* C18: the cache never turns a search that could succeed into a failure:
\* a search that found its key in the cache returns a list of offers, never
\* the absent result, also when the entry expires or is damaged or the
\* store raises between the membership test and the read.
C18_CacheNeverFailsASearch ==
    [][ReadStep =>
          /\ IsSet(search'.result)
          /\ Val(search'.result).type = "list"]_vars

CacheOps == {"RedisCache.__contains__", "RedisCache.__getitem__", "RedisCache.__setitem__"}

\* the store raised during the last cache operation
StoreRaised == call.value.fault # ""

BeginStep(params) ==
    /\ search.pc \in {"idle", "done"}
    /\ search'.pc \in {"hit", "miss"}
    /\ search'.params = Some(params)

\* the entry a search for params wrote is still within its time to live
WithinTtl(params) ==
    /\ IsSet(search.written[params])
    /\ now < Val(search.written[params]).at + Ttl

\* C20: with a working cache, a search whose parameters were searched
\* before, made before the TTL of the entry that search wrote has elapsed,
\* issues no upstream request and returns a value equal to the one the
\* first search returned (what is read back equals what was written); once
\* the TTL has elapsed the entry is a miss and the search issues a new
\* upstream request.
C20_CacheReuse ==
    [][/\ \A params \in SearchParams :
            BeginStep(params) /\ redis # None /\ call'.value.fault = ""
                /\ IsSet(search.written[params]) =>
               IF WithinTtl(params)
               THEN search'.pc = "hit" /\ search'.requests = search.requests
               ELSE search'.pc = "miss"
       /\ ReadStep /\ redis # None /\ call'.value.fault = ""
              /\ WithinTtl(Val(search.params))
              /\ Val(store[cache_key(Val(search.params))]).text # Malformed =>
             /\ search'.result = Some(Val(search.written[Val(search.params)]).value)
             /\ search'.requests = search.requests
       /\ search.pc = "miss" /\ search'.pc = "done" =>
             search'.requests = search.requests + 1]_vars

\* a second search, made a second after the first wrote its result, found
\* the entry and returned the first one's offers with one request made
C20_Witness ==
    /\ search.pc = "done"
    /\ search.requests = 1
    /\ IsSet(search.result)
    /\ Val(search.result).items # <<>>
    /\ call.op = "search: return self.cache[cache_key]"
    /\ IsSet(search.written[Val(search.params)])
    /\ Val(search.written[Val(search.params)]).at < now
    /\ search.result = Some(Val(search.written[Val(search.params)]).value)

----------------------------------------------------------------------------
(* Claims about the provider clients.                                      *)

\* the OAuth client lacks one of its credentials
CredentialsAbsent == ~search.client_id \/ ~search.client_secret

\* C21: a search made while the client's credentials are absent returns the
\* absent result without any network call: no token request and no search
\* request is issued.
C21_NoCredentialsNoNetwork ==
    CredentialsAbsent =>
        /\ search.pc \in {"idle", "done"}
        /\ search.result = None
        /\ search.token_requests = 0
        /\ search.search_requests = 0

\* the OAuth client starts a search
OAuthBeginStep == search.pc \in {"idle", "done"} /\ search' # search

\* the OAuth client's search sends its search request and returns
OAuthUpstreamStep == search.pc = "miss" /\ search'.pc = "done"

\* C22: no automatic retry: one search issues at most one token request and
\* at most one search request; when either request fails at the transport
\* level (error, timeout, status that is not 2xx) that same search returns
\* the absent result, issues no further request and writes nothing to the
\* cache.
C22_NoRetry ==
    [][/\ search'.token_requests <= 1
       /\ search'.search_requests <= 1
       /\ OAuthBeginStep /\ search'.token_response = Some(TokenFailed) =>
             /\ search'.pc = "done"
             /\ search'.result = None
             /\ ~search'.raised
             /\ search'.search_requests = 0
             /\ store' = store
       /\ OAuthUpstreamStep /\ search'.api_response = Some(ApiFailed) =>
             /\ search'.result = None
             /\ ~search'.raised
             /\ search'.token_requests = search.token_requests
             /\ search'.search_requests = 1
             /\ store' = store]_vars

\* a search fetched its token, then its search request failed and it
\* returned the absent result with one request of each kind made
C22_Witness ==
    /\ search.pc = "done"
    /\ search.token_requests = 1
    /\ search.search_requests = 1
    /\ search.api_response = Some(ApiFailed)
    /\ search.result = None
    /\ \A key \in StoreKeys : store[key] = None

\* C23: no provider search and no token fetch raises to its caller:
\* whatever the token endpoint and the search endpoint answer (a failed
\* request, or a 2xx body that lacks access_token, holds an offer without
\* segments or a departure time that is no time), search returns a list of
\* offers or the absent result.
C23_SearchNeverRaises ==
    /\ ~search.raised
    /\ IsSet(search.result) => Val(search.result).type = "list"

----------------------------------------------------------------------------
(* The preferences table as a map.                                         *)

\* request w runs the statements of op on (user_id, key) in this step
Works(w, op, user_id, key) ==
    /\ ops[w].pc = "acquired" /\ ops'[w].pc = "finally"
    /\ ops[w].op = op /\ ops[w].user_id = user_id /\ ops[w].key = key

\* the entries under every pair but (user_id, key) are as they were
OthersKept(user_id, key) ==
    db'.user_preferences \ Matching(db'.user_preferences, user_id, key)
        = db.user_preferences \ Matching(db.user_preferences, user_id, key)

\* what a map holding the rows answers for (user_id, key)
Lookup(rows, user_id, key) ==
    IF Matching(rows, user_id, key) = {} THEN None
    ELSE Some((CHOOSE r \in Matching(rows, user_id, key) : TRUE).preference_value)

----------------------------------------------------------------------------
(* The connections of the pool.                                            *)

\* the requests that hold a connection
Holding == {w \in DOMAIN ops : ops[w].conn}

\* what the database has committed
Committed(d) == <<d.tables, d.user_preferences, d.seeded>>

\* C25: a request holds a connection exactly from its getconn() to its
\* finally block, which gives it back once, after a commit and after an
\* error alike; so the connections checked out are those of the requests
\* in progress, never more than maxconn, and none when no operation is
\* running; and a step in which an operation fails commits nothing
C25_ConnectionsReturned ==
    /\ [](/\ db.checked_out = Cardinality(Holding)
          /\ db.checked_out <= maxconn
          /\ \A w \in DOMAIN ops : ops[w].conn <=> ops[w].pc \in {"acquired", "finally"}
          /\ (\A w \in DOMAIN ops : ops[w].pc \in {"idle", "done"}) => db.checked_out = 0)
    /\ [][\A w \in DOMAIN ops :
            /\ ops[w].pc = "finally" /\ ops'[w].pc = "done" =>
                    /\ db'.checked_out = db.checked_out - 1
                    /\ Committed(db') = Committed(db)
            /\ ops'[w] # ops[w] /\ ops'[w].failed => Committed(db') = Committed(db)]_vars

\* the pool is exhausted while an operation that failed still holds its
\* connection and another request was refused one
C25_Witness ==
    /\ db.checked_out = maxconn
    /\ \E w \in DOMAIN ops : ops[w].pc = "finally" /\ ops[w].failed /\ ops[w].conn
    /\ \E w \in DOMAIN ops : ops[w].pc = "done" /\ ops[w].failed /\ ops[w].op # ""

----------------------------------------------------------------------------
(* The optional fields of the flight form.                                 *)

\* the last run validated slot_name and left it without a value
LeftEmpty(slot_name) ==
    /\ call.op = "validate_" \o slot_name
    /\ ~call.raised
    /\ get_slot(slots, slot_name) = None

\* C26: after the user declines to name an airline, declines to give a
\* frequent-flyer number or gives one that mismatches the airline's
\* format, the form does not ask for that field again
C26_OptionalFieldsSkipped ==
    \A slot_name \in {"preferred_airline", "frequent_flyer_number"} :
        LeftEmpty(slot_name) => next_slot_to_request(slots) # Some(slot_name)

----------------------------------------------------------------------------
(* The multi-city leg loop.                                                *)

\* the last run validated a next destination and appended it as a leg
LegAccepted ==
    /\ call.op = "validate_next_destination"
    /\ ~call.raised
    /\ Assigned(events, "destinations")

\* C27: after each accepted next destination the first unfilled required
\* slot is add_more_destinations; after the answer yes it is
\* next_destination; after the answer no the pair is gone from
\* required_slots and no slot before departure_date is outstanding
C27_LegLoopAsksBeforeNextLeg ==
    /\ LegAccepted /\ IsSet(get_slot(slots, "departure_city")) =>
            next_slot_to_request(slots) = Some("add_more_destinations")
    /\ call.op = "validate_add_more_destinations" /\ call.value = TRUE
            /\ IsSet(get_slot(slots, "departure_city")) =>
                next_slot_to_request(slots) = Some("next_destination")
    /\ call.op = "validate_add_more_destinations" /\ call.value = FALSE
            /\ IsSet(get_slot(slots, "departure_city")) =>
                /\ Range(required_slots(slots))
                        \cap {"next_destination", "add_more_destinations"} = {}
                /\ next_slot_to_request(slots) = Some("departure_date")

----------------------------------------------------------------------------
(* What a correction run returns.                                          *)

\* the corrected slots the validators give for the entities of a message
CorrectedBy(all_entities, tracker, airports, all_cities) ==
    LET city_entity == FirstEntity(all_entities, "city")
    IN  generic_corrections(all_entities, tracker,
            IF IsSet(city_entity)
            THEN handle_city_correction(Val(city_entity), all_entities, tracker,
                                        airports, all_cities)
            ELSE Out(<<>>, <<>>)).res

Apology == Text("I'm sorry, I didn't understand the correction")

C28_WitnessRefused ==
    /\ call.op = "action_handle_correction"
    /\ Len(call.value) = 2
    /\ events = <<ReviewNext>>
    /\ Apology \in Range(messages)

----------------------------------------------------------------------------
(* What validating a next destination does to the legs.                    *)

\* the city typed is the previous stop: the last leg, or the departure
\* city when there is no leg yet, whatever the case of its letters
SameAsPrevious(value, tracker) ==
    LET legs == ListOf(get_slot(tracker, "destinations"))
        previous == IF legs # <<>> THEN Some(legs[Len(legs)])
                    ELSE get_slot(tracker, "departure_city")
    IN  IsSet(previous) /\ Lower(value) = Lower(Val(previous))

LegsKept ==
    /\ slots'["destinations"] = slots["destinations"]
    /\ slots'["destinations_iata"] = slots["destinations_iata"]

\* C29: validate_next_destination refuses the previous stop with a
\* message and leaves both lists as they were; a city with one airport is
\* appended to destinations and its code to destinations_iata, the earlier
\* elements kept, and next_destination is cleared; a city with no airport
\* or with several leaves both lists as they were
C29_NextDestinationAppends ==
    [][call'.op = "validate_next_destination" =>
        LET value == call'.value
            legs == ListOf(slots["destinations"])
            codes == ListOf(slots["destinations_iata"])
        IN  /\ SameAsPrevious(value, slots) =>
                    /\ LegsKept
                    /\ messages' = <<Text("The next destination cannot be the same as the previous one")>>
                    /\ slots'["next_destination"] = None
            /\ ~SameAsPrevious(value, slots) /\ Len(call'.airports) = 1 =>
                    /\ slots'["destinations"] = Some(legs \o <<value>>)
                    /\ slots'["destinations_iata"] = Some(codes \o <<call'.airports[1].iata>>)
                    /\ slots'["next_destination"] = None
            /\ ~SameAsPrevious(value, slots) /\ Len(call'.airports) # 1 => LegsKept]_vars

\* a second leg has just been appended behind a different first leg
C29_Witness ==
    /\ call.op = "validate_next_destination"
    /\ Len(call.airports) = 1
    /\ Len(ListOf(slots["destinations"])) = 2
    /\ ListOf(slots["destinations"])[2] = call.value
    /\ ListOf(slots["destinations_iata"])[2] = call.airports[1].iata
    /\ slots["next_destination"] = None

----------------------------------------------------------------------------
(* The airport picked from a clarification prompt.                         *)

\* the ambiguity-resolution staging slots
AmbiguitySlots ==
    {"ambiguous_city_slot", "ambiguous_city_name", "suggested_city", "selected_iata_code"}

\* C30: a run of action_set_airport_from_clarification that finds
\* ambiguous_city_slot, ambiguous_city_name and selected_iata_code set
\* assigns the staged city to the slot named and the code picked to its
\* _iata slot, and leaves every ambiguity staging slot and requested_slot
\* empty; a run that misses one of the three returns no events and
\* leaves the slots as they were
C30_ClarificationFillsAndClears ==
    [][call'.op = "action_set_airport_from_clarification" =>
        LET tracker == IF IsSet(call'.value)
                       THEN [slots EXCEPT !["selected_iata_code"] = call'.value]
                       ELSE slots
            staged == /\ IsSet(tracker["ambiguous_city_slot"])
                      /\ IsSet(tracker["ambiguous_city_name"])
                      /\ IsSet(tracker["selected_iata_code"])
        IN  /\ staged =>
                    /\ slots'[Val(tracker["ambiguous_city_slot"])] = tracker["ambiguous_city_name"]
                    /\ slots'[IataOf(Val(tracker["ambiguous_city_slot"]))]
                            = tracker["selected_iata_code"]
                    /\ \A name \in AmbiguitySlots \cup {"requested_slot"} : slots'[name] = None
            /\ ~staged => events' = <<>> /\ slots' = tracker]_vars

----------------------------------------------------------------------------
(* The answer to a typo suggestion.                                        *)

SpellItOut == Text("My mistake. Could you please spell out the city name for me?")

\* C31: a run of action_handle_city_suggestion with ambiguous_city_slot
\* staged and a form active gives the paused slot the suggested city on
\* affirm; on any other intent it empties the paused slot and its _iata
\* slot and asks for the spelling; either way suggested_city and
\* ambiguous_city_slot are emptied and the last event is the follow-up of
\* the active form.  Without the staging or without a form no slot
\* changes and the one event is the follow-up action_listen
C31_SuggestionAnswered ==
    [][call'.op = "action_handle_city_suggestion" =>
        LET paused == slots["ambiguous_city_slot"]
            staged == IsSet(paused) /\ IsSet(active_loop)
        IN  /\ staged /\ call'.value = "affirm" =>
                    slots'[Val(paused)] = slots["suggested_city"]
            /\ staged /\ call'.value # "affirm" =>
                    /\ slots'[Val(paused)] = None
                    /\ slots'[IataOf(Val(paused))] = None
                    /\ SpellItOut \in Range(messages')
            /\ staged =>
                    /\ slots'["suggested_city"] = None
                    /\ slots'["ambiguous_city_slot"] = None
                    /\ events'[Len(events')] = FollowupAction(Val(active_loop))
                    /\ \A name \in SlotNames \ {Val(paused), IataOf(Val(paused)),
                                                 "suggested_city", "ambiguous_city_slot"} :
                            slots'[name] = slots[name]
            /\ ~staged =>
                    /\ slots' = slots
                    /\ events' = <<FollowupAction("action_listen")>>]_vars

\* the suggestion was confirmed: the paused slot holds the suggested city
C31_Witness ==
    /\ call.op = "action_handle_city_suggestion"
    /\ call.value = "affirm"
    /\ events # <<>>
    /\ events[Len(events)] = FollowupAction(FlightForm)
    /\ slots["departure_city"] = Some("Paris")
    /\ slots["departure_city_iata"] = None

\* the staging was there but no form was active: nothing but action_listen
C31_WitnessNoForm ==
    /\ call.op = "action_handle_city_suggestion"
    /\ active_loop = None
    /\ IsSet(slots["ambiguous_city_slot"])
    /\ events = <<FollowupAction("action_listen")>>

----------------------------------------------------------------------------
(* The preferences a flight search uses.                                   *)

UsingSaved == Text("Just so you know, I'm using your saved preference")

\* what get_user_preference gives the searching user for key when the
\* call ends with fault
Held(key, fault) ==
    IF fault # "" THEN None ELSE Lookup(db.user_preferences, sender_id, key)

\* C32: a search of a one-way or round-trip booking calls the client with
\* the conversation's preferred_airline whenever that slot is set, and
\* then reads no saved airline; with the slot unset and the data store
\* available it passes the saved airline, if one is held, and says so;
\* the saved seat preference is read and passed whenever the data store
\* is available; without the data store nothing is read and the client is
\* still called; no run changes a slot or a stored preference
C32_PreferencePrecedence ==
    [][call'.op = "action_search_flights" =>
        /\ slots' = slots
        /\ db' = db
        /\ slots["booking_trip_type"] # Some("multi-city") =>
            LET airline == slots["preferred_airline"]
                reads == call'.value.reads
                args == Val(call'.value.search)
                seat == Held("seat_preference", call'.value.faults[1])
                saved == Held("preferred_airline", call'.value.faults[2])
            IN  /\ IsSet(call'.value.search)
                /\ IsSet(airline) =>
                        /\ args.preferred_airline = airline
                        /\ "preferred_airline" \notin Range(reads)
                        /\ UsingSaved \notin Range(messages')
                /\ ~IsSet(airline) /\ pool =>
                        /\ args.preferred_airline = saved
                        /\ UsingSaved \in Range(messages') <=> IsSet(saved)
                /\ pool =>
                        /\ "seat_preference" \in Range(reads)
                        /\ args.seat_preference = seat
                /\ ~pool =>
                        /\ reads = <<>>
                        /\ args.seat_preference = None
                        /\ args.preferred_airline = airline
                        /\ UsingSaved \notin Range(messages')]_vars

\* the conversation named an airline while the store holds another for
\* the user: the search went out with the conversation's
C32_Witness ==
    /\ call.op = "action_search_flights"
    /\ pool
    /\ slots["preferred_airline"] = Some("Delta")
    /\ Row(sender_id, "preferred_airline", "KLM") \in db.user_preferences
    /\ IsSet(call.value.search)
    /\ Val(call.value.search).preferred_airline = Some("Delta")
    /\ Val(call.value.search).seat_preference = Some("window")

\* a token is held and the clock is before its fetch time + expires_in -
\* TokenMargin
TokenFresh == IsSet(search.access_token) /\ now < search.token_expiry_time

\* C33: once a token has been obtained, every later search made before its
\* fetch time + expires_in - 300 seconds reuses it without a token request,
\* searches of later action invocations of the same process included, and
\* the first search at or after that instant issues exactly one token
\* request.
C33_TokenReusedUntilExpiry ==
    [][OAuthBeginStep =>
            /\ TokenFresh =>
                    /\ search'.token_requests = 0
                    /\ search'.access_token = search.access_token
            /\ IsSet(search.access_token) /\ ~TokenFresh =>
                    search'.token_requests = 1]_vars

\* the destination of the booking: the last leg of a multi-city trip with
\* legs, else the destination city
KnownDestination ==
    LET destinations == ListOf(slots["destinations"])
    IN  IF slots["booking_trip_type"] = Some("multi-city") /\ destinations # <<>>
        THEN Some(destinations[Len(destinations)])
        ELSE slots["destination_city"]

\* C34: ActionConfirmBooking emits the booking-confirmed response first,
\* then the hotel offer for the known destination (the last leg of a
\* multi-city trip with legs) with a button carrying that city as hotel_name,
\* or else the generic anything-else question; it returns no events.
C34_ConfirmThenUpsell ==
    [][call'.op = "action_confirm_booking" =>
            /\ events' = <<>>
            /\ slots' = slots
            /\ messages'[1] = Response("utter_booking_confirmed")
            /\ Len(messages') = 2
            /\ IsSet(KnownDestination) =>
                    /\ messages'[2].buttons # <<>>
                    /\ messages'[2].buttons[1] =
                            Payload("book_hotel", "hotel_name", Val(KnownDestination))
            /\ ~IsSet(KnownDestination) =>
                    messages'[2] = Text("Is there anything else I can help you with?")]_vars

\* the known city names the pickup location is matched against
KnownCities == get_all_city_names(pool)

\* C35: car pickup-location validation: an input equal, case aside, to a
\* known city name is accepted as the canonical name; otherwise a best fuzzy
\* match scoring above 80 clears the slot and stages suggested_city and
\* ambiguous_city_slot = pickup_location with a yes/no prompt; with no known
\* cities (the data store disabled included) or no match above 80 the
\* location is rejected and the slot is cleared.
C35_PickupLocation ==
    [][call'.op = "validate_pickup_location" =>
        LET v == call'.value
            exact == {c \in Range(KnownCities) : Lower(c) = Lower(v)}
        IN  /\ exact # {} =>
                    /\ slots'["pickup_location"] \in {Some(c) : c \in exact}
                    /\ slots'["suggested_city"] = slots["suggested_city"]
                    /\ messages' = <<>>
            /\ KnownCities = <<>> => slots'["pickup_location"] = None
            /\ exact = {} /\ KnownCities # <<>> =>
                    IF extractOne(v, KnownCities).score > 80
                    THEN /\ slots'["pickup_location"] = None
                         /\ slots'["suggested_city"] =
                                Some(extractOne(v, KnownCities).best_match)
                         /\ slots'["ambiguous_city_slot"] = Some("pickup_location")
                         /\ Len(messages') = 1
                         /\ messages'[1].id = "utter_clarify_city_typo"
                         /\ messages'[1].buttons =
                                <<Payload("affirm", "", ""), Payload("deny", "", "")>>
                    ELSE /\ slots'["pickup_location"] = None
                         /\ slots'["suggested_city"] = slots["suggested_city"]]_vars

\* C36: in every state of a flight booking with departure_date and
\* return_date both set, return_date is strictly after departure_date, also
\* after the departure date is revised in the form or by a correction.
C36_ReturnAfterDeparture ==
    IsSet(slots["departure_date"]) /\ IsSet(slots["return_date"]) =>
        Val(slots["return_date"]).day > Val(slots["departure_date"]).day

\* the announcements of a one-way search, with and without the seat note
OneWayAnnouncements ==
    {Text("Okay! Searching for one-way flights" \o note) :
        note \in {"", " I'll keep in mind you prefer a seat."}}

\* C37: for a booking whose trip type is one-way, ActionSearchFlights calls
\* the search client with no return date and announces a one-way search, and
\* the review summary mentions no return date, whatever answers and
\* corrections came before, a change from round trip to one-way after the
\* return date was collected included.
C37_OneWayHasNoReturn ==
    [][slots["booking_trip_type"] = Some("one-way") =>
            /\ call'.op = "action_search_flights" =>
                    /\ IsSet(call'.value.search)
                    /\ Val(call'.value.search).return_date = None
                    /\ Range(messages') \cap OneWayAnnouncements # {}
            /\ call'.op = "action_review_and_confirm" =>
                    \A i \in DOMAIN call'.value.summary :
                        call'.value.summary[i].words # "and returning on"]_vars

\* the two lists of legs have one length, and each code is the code of the
\* single airport of the city at its place
LegsParallel ==
    LET destinations == ListOf(slots["destinations"])
        destinations_iata == ListOf(slots["destinations_iata"])
    IN  /\ IsSet(slots["destinations"]) <=> IsSet(slots["destinations_iata"])
        /\ Len(destinations) = Len(destinations_iata)
        /\ \A i \in DOMAIN destinations :
                /\ Len(AirportsRead(destinations[i])) = 1
                /\ destinations_iata[i] = AirportsRead(destinations[i])[1].iata

\* the answer is one that validate_booking_trip_type reads as multi-city
SaysMultiCity(v) ==
    /\ Contains(Lower(v), "multi")
    /\ ~Contains(Lower(v), "one")
    /\ ~Contains(Lower(v), "round")

\* C38: destinations and destinations_iata stay parallel: from both unset,
\* after any trip-type validations, next-destination validations and leg
\* corrections the lists have equal length and element i of destinations_iata
\* is the code city validation resolved for element i of destinations;
\* selecting multi-city (again) resets both lists to empty and the add-more
\* flag to true.
C38_LegListsParallel ==
    /\ []LegsParallel
    /\ [][call'.op = "validate_booking_trip_type" /\ SaysMultiCity(call'.value) =>
            /\ slots'["destinations"] = Some(<<>>)
            /\ slots'["destinations_iata"] = Some(<<>>)
            /\ slots'["add_more_destinations"] = Some(TRUE)]_vars

\* multi-city was selected and both lists are empty
C38_WitnessReset ==
    /\ call.op = "validate_booking_trip_type"
    /\ SaysMultiCity(call.value)
    /\ slots["destinations"] = Some(<<>>)
    /\ slots["destinations_iata"] = Some(<<>>)

\* a trip of two legs whose first leg was replaced by a correction
C38_Witness ==
    /\ call.op = "action_handle_correction"
    /\ slots["destinations"] = Some(<<"Tokyo", "Paris">>)
    /\ slots["destinations_iata"] = Some(<<"HND", "CDG">>)

\* a prompt is pending: ambiguous_city_slot names a slot that awaits its
\* answer
PromptPending ==
    /\ IsSet(slots["ambiguous_city_slot"])
    /\ ~IsSet(slots[Val(slots["ambiguous_city_slot"])])

\* C39: ambiguity staging is never stale: whenever a city slot holds an
\* accepted value ambiguous_city_slot does not name it, and suggested_city
\* and ambiguous_city_name are set only while their prompt is pending (an
\* accepted answer typed instead of a button click clears the staging the
\* earlier prompt left).
C39_StagingNeverStale ==
    /\ \A s \in CitySlots :
            IsSet(slots[s]) => slots["ambiguous_city_slot"] # Some(s)
    /\ IsSet(slots["suggested_city"]) \/ IsSet(slots["ambiguous_city_name"]) =>
            PromptPending

\* the step is a run of one of the two resolving actions on a paused
\* next_destination
ResolvesPausedLeg ==
    /\ call'.op \in {"action_set_airport_from_clarification",
                     "action_handle_city_suggestion"}
    /\ slots["booking_trip_type"] = Some("multi-city")
    /\ slots["ambiguous_city_slot"] = Some("next_destination")

\* C40: in a multi-city booking every leg that is accepted, directly, after
\* an airport choice or after a confirmed typo suggestion, is appended with
\* its code to destinations and destinations_iata: resolving a paused
\* next_destination through ActionSetAirportFromClarification or
\* ActionHandleCitySuggestion never leaves the city only in next_destination
\* with the lists unchanged.
C40_ResolvedLegAppended ==
    [][ResolvesPausedLeg /\ IsSet(slots'["next_destination"]) =>
            /\ slots'["destinations"] # slots["destinations"]
            /\ slots'["destinations_iata"] # slots["destinations_iata"]
            /\ ListOf(slots'["destinations"])[Len(ListOf(slots'["destinations"]))] =
                    Val(slots'["next_destination"])]_vars

====
